---- MODULE Spec2Model ----
(***************************************************************************)
(* Model of the heuristic analysis and scheduling engine of the            *)
(* neurologic-coach application: the time-block auto-scheduler, manual     *)
(* drag-and-drop placement, crisis detection, the local cognitive          *)
(* analysis, local task prioritisation and the remote-call wrappers with   *)
(* their local fallbacks.                                                   *)
(*                                                                         *)
(* Times of day are "HH:MM" strings in the code; here a time is the pair   *)
(* <<hours, minutes>> that the string spells.  A missing optional number   *)
(* (estimatedMinutes, taskId) is 0, which the code's `x || d` and          *)
(* `filter(b => b.taskId)` treat exactly like undefined.                   *)
(***************************************************************************)
EXTENDS Integers, Sequences, FiniteSets, TLC

VARIABLES
    \* ---- time page: tasks, time blocks, energy pattern ----
    tasks,          \* useTasks('pending'): sequence of task records
    timeBlocks,     \* db.timeBlocks for the selected date: set of block records
    energyPatterns, \* [isNull |-> TRUE] for null, else the EnergyPattern's peakHours
    snapshot,       \* the timeBlocks value the last auto-schedule invocation started from
    created,        \* the blocks passed to addTimeBlock by the last invocation, in order
    attempts,       \* the iterations of the last invocation's loop over the tasks, in order
    \* ---- text analysis ----
    transcript,     \* the text under analysis (see Transcripts below)
    crisisResult,   \* the CrisisDetectionResult of detectCrisis(transcript)
    analysis,       \* the CognitiveAnalysis of patternBasedAnalysis(transcript)
    extractedItems, \* the ExtractedItems of the transcript
    \* ---- task prioritisation ----
    activeTasks,    \* the pending/in_progress tasks handed to localPrioritization
    context,        \* the PrioritizationContext
    prioritized,    \* the PrioritizedTask list returned
    \* ---- engine operations that may call the remote model ----
    apiKey,         \* settings.apiKey, '' when not configured
    calls,          \* per engine operation, the state of its current call
    trace,          \* what the current submission has evaluated or started, in order
    \* ---- mood and energy check-ins ----
    moodLogs,       \* db.moodLogs in timestamp order
    \* ---- reminders ----
    reminders,      \* db.reminders, by id
    activeReminders, \* the useActiveReminders result the component last rendered with
    latestEnergy,   \* the energy of a latest log within 2 hours, 0 for undefined
    permission,     \* whether Notification.permission is 'granted'
    triggeredIds,   \* triggeredIdsRef.current
    checkRuns,      \* the checkAndTrigger invocations suspended at their await
    notifications,  \* per reminder id, the notifications shown
    reminderUpdates, \* per reminder id, the triggerReminder updates applied
    clock,          \* the minute of the wall clock
    checksStarted   \* the checkAndTrigger invocations that found a reminder to trigger

timeVars == <<tasks, timeBlocks, energyPatterns, snapshot, created, attempts>>
textVars == <<transcript, crisisResult, analysis, extractedItems>>
prioVars == <<activeTasks, context, prioritized>>
engineVars == <<apiKey, calls, trace>>
moodVars == <<moodLogs>>
reminderVars ==
    <<reminders, activeReminders, latestEnergy, permission, triggeredIds, checkRuns,
      notifications, reminderUpdates, clock, checksStarted>>
nonTimeVars == <<textVars, prioVars, engineVars, moodVars, reminderVars>>
nonTextVars == <<timeVars, prioVars, engineVars, moodVars, reminderVars>>
nonPrioVars == <<timeVars, textVars, engineVars, moodVars, reminderVars>>
vars == <<timeVars, textVars, prioVars, engineVars, moodVars, reminderVars>>

(***************************************************************************)
(* The state of each part before anything has happened in it.              *)
(***************************************************************************)
NullEnergyPattern == [isNull |-> TRUE, peakHours |-> <<>>]

TimeIdle ==
    /\ tasks = <<>>
    /\ timeBlocks = {}
    /\ snapshot = {}
    /\ created = <<>>
    /\ attempts = <<>>

\* no detectCrisis result yet
NoCrisisResult == [isCrisis |-> FALSE, severity |-> "pending", matchedPatterns |-> <<>>]
\* no patternBasedAnalysis result yet
NoAnalysis == [pending |-> TRUE]
\* no extraction result yet
NoExtractedItems == [pending |-> TRUE]
EmptyTranscript == [matches |-> {}, includes |-> {}, sentences |-> <<>>]

TextIdle ==
    /\ transcript = EmptyTranscript
    /\ crisisResult = NoCrisisResult
    /\ analysis = NoAnalysis
    /\ extractedItems = NoExtractedItems

\* no prioritisation result yet
NoPrioritized == [pending |-> TRUE, list |-> <<>>]
NoContext == [currentEnergy |-> 0, timeAvailable |-> 0]

PrioIdle ==
    /\ activeTasks = <<>>
    /\ context = NoContext
    /\ prioritized = NoPrioritized

Ops == {"analyzeThoughts", "extractTasksAndUrges", "prioritizeTasks",
        "getCoachResponse", "generateMicroSteps"}

\* no exchange with the remote model yet
NoResponse == [fetch |-> "none", ok |-> FALSE, text |-> <<>>]

\* an operation that has not been called
IdleCall ==
    [phase |-> "idle", key |-> "", args |-> <<>>, remoteCalls |-> 0,
     response |-> NoResponse, source |-> "none", value |-> <<>>]

EngineIdle ==
    /\ apiKey = ""
    /\ calls = [op \in Ops |-> IdleCall]
    /\ trace = <<>>

MoodIdle == moodLogs = <<>>

\* no reminder in the database and the component not mounted
ReminderIdle ==
    /\ reminders = <<>>
    /\ activeReminders = <<>>
    /\ latestEnergy = 0
    /\ permission = FALSE
    /\ triggeredIds = {}
    /\ checkRuns = <<>>
    /\ notifications = <<>>
    /\ reminderUpdates = <<>>
    /\ clock = 0
    /\ checksStarted = 0

(***************************************************************************)
(* Bounds of the model.                                                    *)
(***************************************************************************)
MaxTasks == 2
MaxBlocks == 2
MaxQueuedTasks == 6

(***************************************************************************)
(* Generic helpers.                                                        *)
(***************************************************************************)
Min(a, b) == IF a < b THEN a ELSE b
Max(a, b) == IF a > b THEN a ELSE b

Range(s) == {s[i] : i \in 1..Len(s)}

\* a slice that keeps one element too many
SliceOneMore(s, n) == SubSeq(s, 1, Min(n + 1, Len(s)))

\* Array.prototype.slice(0, n)
Slice(s, n) == SubSeq(s, 1, Min(n, Len(s)))

(***************************************************************************)
(* "HH:MM" strings.                                                        *)
(***************************************************************************)
\* parseInt(t.split(':')[0]) * 60 + parseInt(t.split(':')[1])
ToMinutes(t) == t[1] * 60 + t[2]

\* `${Math.floor(m / 60)...}:${(m % 60)...}`
FormatTime(m) == <<m \div 60, m % 60>>

(***************************************************************************)
(* Input catalogues of the time page.                                      *)
(***************************************************************************)
Resistances == {3, 8}
EstimatedMinutesChoices == {0, 200}
PeakHourLists == {<<>>, <<10>>, <<9, 19>>, <<21>>}
ManualIntervals ==
    { <<(<<9, 0>>), (<<10, 0>>)>>, <<(<<10, 0>>), (<<11, 30>>)>>,
      <<(<<9, 0>>), (<<20, 0>>)>>, <<(<<19, 0>>), (<<21, 0>>)>> }

(***************************************************************************)
(* TaskSidebar: unscheduledTasks and handleSimpleAutoSchedule.             *)
(***************************************************************************)
\* the filter left out: every task counts as unscheduled
unscheduledTasksUnfiltered == tasks

\* tasks.filter(task => !scheduledTaskIds.has(task.id))
unscheduledTasks ==
    LET scheduledTaskIds == {b.taskId : b \in {x \in timeBlocks : x.taskId # 0}}
    IN  SelectSeq(tasks, LAMBDA t : t.id \notin scheduledTaskIds)

\* [...a].sort((a, b) => b.resistance - a.resistance): stable, descending
\* the position of s[i] in the sorted array: after every task of higher
\* resistance and after the earlier tasks of the same resistance
RankByResistance(s, i) ==
    Cardinality({j \in 1..Len(s) : \/ s[j].resistance > s[i].resistance
                                   \/ s[j].resistance = s[i].resistance /\ j <= i})

SortByResistance(s) ==
    [k \in 1..Len(s) |-> s[CHOOSE i \in 1..Len(s) : RankByResistance(s, i) = k]]

\* db.timeBlocks...sortBy('startTime'), then existingBlocks.map(b => ({start, end}))
RECURSIVE OccupiedOf(_)
OccupiedOf(blocks) ==
    IF blocks = {} THEN <<>>
    ELSE LET first == CHOOSE b \in blocks :
                 \A c \in blocks : ToMinutes(b.startTime) <= ToMinutes(c.startTime)
         IN  <<[start |-> ToMinutes(first.startTime), end |-> ToMinutes(first.endTime)]>>
                 \o OccupiedOf(blocks \ {first})

\* a conflict test that only asks whether the start falls inside a slot
HasConflictStartOnly(occupiedSlots, startMin, endMin) ==
    \E i \in 1..Len(occupiedSlots) :
        startMin < occupiedSlots[i].end /\ startMin >= occupiedSlots[i].start

\* occupiedSlots.some(slot => (startMin < slot.end && endMin > slot.start))
HasConflict(occupiedSlots, startMin, endMin) ==
    \E i \in 1..Len(occupiedSlots) :
        startMin < occupiedSlots[i].end /\ endMin > occupiedSlots[i].start

\* energyPatterns.peakHours.find(h => free); 0 stands for undefined
RECURSIVE FindPeakHour(_, _, _)
FindPeakHour(peakHours, occupiedSlots, duration) ==
    IF peakHours = <<>> THEN 0
    ELSE IF ~HasConflict(occupiedSlots, Head(peakHours) * 60, Head(peakHours) * 60 + duration)
         THEN Head(peakHours)
         ELSE FindPeakHour(Tail(peakHours), occupiedSlots, duration)

\* while (conflict) { slotStart += 30; if (slotStart >= 20 * 60) break; }
\* the start the loop ends at, and the number of times its body has run
\* the break test with the ceiling at midnight
PastMidnight(slotStart) == slotStart >= 24 * 60

\* if (slotStart >= 20 * 60) break
PastEight(slotStart) == slotStart >= 20 * 60

RECURSIVE Probe(_, _, _, _)
Probe(occupiedSlots, slotStart, duration, iterations) ==
    IF ~HasConflict(occupiedSlots, slotStart, slotStart + duration)
    THEN [slotStart |-> slotStart, iterations |-> iterations]
    ELSE IF PastEight(slotStart + 30)
         THEN [slotStart |-> slotStart + 30, iterations |-> iterations + 1]
         ELSE Probe(occupiedSlots, slotStart + 30, duration, iterations + 1)

\* the peak-hour test with the resistance threshold one too high
WantsPeakHourAboveSeven(task, peakHours) == task.resistance > 8 /\ Len(peakHours) > 0

\* task.resistance >= 7 && energyPatterns.peakHours.length > 0
WantsPeakHour(task, peakHours) == task.resistance >= 7 /\ Len(peakHours) > 0

\* the loop body up to `if (slotStart >= 20 * 60) continue`: the peak hour
\* found (0 for none), the candidate hour, whether the candidate conflicts,
\* and the start minute settled on
SlotSearch(task, occupiedSlots, currentMinute, peakHours) ==
    LET duration == IF task.estimatedMinutes # 0 THEN task.estimatedMinutes ELSE 30
        availablePeakHour == IF WantsPeakHour(task, peakHours)
                             THEN FindPeakHour(peakHours, occupiedSlots, duration)
                             ELSE 0
        bestHour == IF availablePeakHour # 0 THEN availablePeakHour
                    ELSE currentMinute \div 60
        hasConflict == HasConflict(occupiedSlots, bestHour * 60, bestHour * 60 + duration)
        probe == IF hasConflict THEN Probe(occupiedSlots, currentMinute, duration, 0)
                 ELSE [slotStart |-> bestHour * 60, iterations |-> 0]
    IN  [duration |-> duration, availablePeakHour |-> availablePeakHour,
         bestHour |-> bestHour, hasConflict |-> hasConflict,
         slotStart |-> probe.slotStart, iterations |-> probe.iterations]

\* the start minute the loop body settles on for one task
SlotStartFor(task, occupiedSlots, currentMinute, peakHours) ==
    SlotSearch(task, occupiedSlots, currentMinute, peakHours).slotStart

\* the body of `for (const task of sortedTasks.slice(0, 5))`
\* one iteration as the log keeps it: the task, the occupied list and the
\* cursor the iteration read, what its search found, and the occupied list
\* and the cursor it left
Attempt(task, occupiedSlots, currentMinute, search, occupiedAfter, cursorAfter) ==
    [task |-> task, occupiedSlots |-> occupiedSlots, currentMinute |-> currentMinute,
     search |-> search, placed |-> search.slotStart < 20 * 60,
     occupiedAfter |-> occupiedAfter, cursorAfter |-> cursorAfter]

\* the loop body without its push: the list the next task reads is unchanged
MarkOccupiedForgotten(occupiedSlots, slotStart, endMinutes) == occupiedSlots

\* occupiedSlots.push({ start: slotStart, end: endMinutes })
MarkOccupied(occupiedSlots, slotStart, endMinutes) ==
    Append(occupiedSlots, [start |-> slotStart, end |-> endMinutes])

\* the loop body with the cursor moved past the probed slot of a skipped task
NextCursorPastSkipped(currentMinute, slotStart, endMinutes) == endMinutes + 15

\* `continue` leaves currentMinute alone; after a block it is endMinutes + 15
NextCursor(currentMinute, slotStart, endMinutes) ==
    IF slotStart >= 20 * 60 THEN currentMinute ELSE endMinutes + 15

\* one pass of the loop body for task: the blocks created so far, the
\* occupied list, the cursor and the attempts after it
LoopBody(task, occupiedSlots, currentMinute, peakHours, blocks, log) ==
    LET search == SlotSearch(task, occupiedSlots, currentMinute, peakHours)
        slotStart == search.slotStart
        endMinutes == slotStart + search.duration
        pushed == MarkOccupied(occupiedSlots, slotStart, endMinutes)
        cursor == NextCursor(currentMinute, slotStart, endMinutes)
    IN  IF slotStart >= 20 * 60
        THEN [blocks |-> blocks, occupiedSlots |-> occupiedSlots, currentMinute |-> cursor,
              attempts |-> Append(log, Attempt(task, occupiedSlots, currentMinute, search,
                                               occupiedSlots, cursor))]
        ELSE [blocks |-> Append(blocks, [startTime |-> FormatTime(slotStart),
                                         endTime |-> FormatTime(endMinutes),
                                         taskId |-> task.id]),
              occupiedSlots |-> pushed,
              currentMinute |-> cursor,
              attempts |-> Append(log, Attempt(task, occupiedSlots, currentMinute, search,
                                               pushed, cursor))]

\* for (const task of sortedTasks.slice(0, 5)) { ... }: each pass starts from
\* what the pass before it left
RECURSIVE ScheduleLoop(_, _, _, _, _, _)
ScheduleLoop(todo, occupiedSlots, currentMinute, peakHours, blocks, log) ==
    IF todo = <<>>
    THEN [blocks |-> blocks, occupiedSlots |-> occupiedSlots, currentMinute |-> currentMinute,
          attempts |-> log]
    ELSE CHOOSE run \in {ScheduleLoop(Tail(todo), after.occupiedSlots, after.currentMinute,
                                      peakHours, after.blocks, after.attempts) :
                             after \in {LoopBody(Head(todo), occupiedSlots, currentMinute,
                                                 peakHours, blocks, log)}} : TRUE

handleSimpleAutoSchedule ==
    /\ Len(unscheduledTasks) # 0
    /\ ~energyPatterns.isNull
    /\ LET sortedTasks == SortByResistance(unscheduledTasks)
           run == ScheduleLoop(Slice(sortedTasks, 5), OccupiedOf(timeBlocks), 9 * 60,
                               energyPatterns.peakHours, <<>>, <<>>)
       IN  /\ created' = run.blocks
           /\ attempts' = run.attempts
           /\ timeBlocks' = timeBlocks \cup Range(run.blocks)
    /\ snapshot' = timeBlocks
    /\ UNCHANGED <<tasks, energyPatterns>>
    /\ UNCHANGED nonTimeVars

\* db.tasks.add: a new pending task; useTasks lists the newest first
addTask(resistance, estimatedMinutes) ==
    /\ tasks' = <<[id |-> Len(tasks) + 1, resistance |-> resistance,
                   estimatedMinutes |-> estimatedMinutes]>> \o tasks
    /\ UNCHANGED <<timeBlocks, energyPatterns, snapshot, created, attempts>>
    /\ UNCHANGED nonTimeVars

\* VisualTimeline.handleAddBlock: a block typed in by hand, not linked to a task
handleAddBlock(startTime, endTime) ==
    /\ Cardinality(timeBlocks) < MaxBlocks
    /\ timeBlocks' = timeBlocks \cup {[startTime |-> startTime, endTime |-> endTime, taskId |-> 0]}
    /\ UNCHANGED <<tasks, energyPatterns, snapshot, created, attempts>>
    /\ UNCHANGED nonTimeVars

InitSched ==
    /\ TimeIdle
    /\ TextIdle
    /\ PrioIdle
    /\ EngineIdle
    /\ MoodIdle
    /\ ReminderIdle
    /\ energyPatterns \in {NullEnergyPattern}
                          \cup {[isNull |-> FALSE, peakHours |-> p] : p \in PeakHourLists}

NextSched ==
    \/ Len(tasks) < MaxTasks /\ \E r \in Resistances, m \in EstimatedMinutesChoices : addTask(r, m)
    \/ \E iv \in ManualIntervals : handleAddBlock(iv[1], iv[2])
    \/ handleSimpleAutoSchedule

SpecSched == InitSched /\ [][NextSched]_vars

\* the minute intervals of two blocks overlap
BlocksOverlap(a, b) ==
    /\ ToMinutes(a.startTime) < ToMinutes(b.endTime)
    /\ ToMinutes(b.startTime) < ToMinutes(a.endTime)

\* C1: no two blocks created by one auto-schedule invocation overlap, and no
\* created block overlaps a block that existed when the invocation started.
SchedulerNoOverlap ==
    /\ \A i, j \in 1..Len(created) : i # j => ~BlocksOverlap(created[i], created[j])
    /\ \A i \in 1..Len(created) : \A b \in snapshot : ~BlocksOverlap(created[i], b)

\* an invocation created two blocks on a day that already had a block
SchedulerNoOverlapWitness ==
    /\ Len(created) >= 2
    /\ snapshot # {}

\* C2: every block created by the auto-scheduler starts at or after 06:00 and
\* ends at or before 22:00.
SchedulerBounds ==
    \A i \in 1..Len(created) :
        /\ ToMinutes(created[i].startTime) >= 6 * 60
        /\ ToMinutes(created[i].endTime) <= 22 * 60

\* the interval of the block an attempt created
PlacedInterval(attempt) ==
    [start |-> attempt.search.slotStart,
     end |-> attempt.search.slotStart + attempt.search.duration]

\* C16: within one invocation the tasks are attempted in non-increasing
\* resistance order, one after the other, and the interval of every block
\* created so far is in the occupied list that the conflict tests of every
\* later task consult.
AttemptOrderAndVisibility ==
    /\ \A i, j \in 1..Len(attempts) :
           i < j => attempts[i].task.resistance >= attempts[j].task.resistance
    /\ Len(attempts) > 0 => attempts[1].occupiedSlots = OccupiedOf(snapshot)
    /\ \A j \in 2..Len(attempts) : attempts[j].occupiedSlots = attempts[j - 1].occupiedAfter
    /\ \A i, j \in 1..Len(attempts) :
           (i < j /\ attempts[i].placed) =>
               \E k \in 1..Len(attempts[j].occupiedSlots) :
                   attempts[j].occupiedSlots[k] = PlacedInterval(attempts[i])

\* the newest task has the lower resistance, so the sort reordered the list;
\* the first attempt created a block and a later one probed past it
AttemptOrderAndVisibilityWitness ==
    /\ Len(attempts) >= 2
    /\ tasks[1].resistance < tasks[2].resistance
    /\ attempts[1].task.resistance > attempts[2].task.resistance
    /\ attempts[1].placed
    /\ attempts[2].search.hasConflict
    /\ HasConflict(<<PlacedInterval(attempts[1])>>, attempts[2].search.bestHour * 60,
                   attempts[2].search.bestHour * 60 + attempts[2].search.duration)

\* the positions in peakHours of the hours h with [h:00, h:00 + duration)
\* disjoint from every interval the attempt read
FreePeakPositions(attempt) ==
    {k \in 1..Len(energyPatterns.peakHours) :
         \A i \in 1..Len(attempt.occupiedSlots) :
             \/ energyPatterns.peakHours[k] * 60 + attempt.search.duration
                    <= attempt.occupiedSlots[i].start
             \/ energyPatterns.peakHours[k] * 60 >= attempt.occupiedSlots[i].end}

\* the first free peak hour of an attempt that has one
FirstFreePeakHour(attempt) ==
    energyPatterns.peakHours[CHOOSE k \in FreePeakPositions(attempt) :
                                 \A l \in FreePeakPositions(attempt) : k <= l]

\* a block of the invocation is linked to the task and starts at minute start
CreatedAt(task, start) ==
    \E i \in 1..Len(created) :
        created[i].taskId = task.id /\ ToMinutes(created[i].startTime) = start

\* the peak-hour rule for the attempts; when beforeEightOnly, a block is
\* required only for a free peak hour before 20:00, and none else
PeakHourRule(beforeEightOnly) ==
    \A j \in 1..Len(attempts) :
        LET attempt == attempts[j]
        IN  (attempt.task.resistance >= 7 /\ Len(energyPatterns.peakHours) > 0) =>
                IF FreePeakPositions(attempt) # {}
                THEN /\ attempt.search.bestHour = FirstFreePeakHour(attempt)
                     /\ IF beforeEightOnly /\ FirstFreePeakHour(attempt) >= 20
                        THEN \A i \in 1..Len(created) : created[i].taskId # attempt.task.id
                        ELSE CreatedAt(attempt.task, FirstFreePeakHour(attempt) * 60)
                ELSE attempt.search.bestHour = attempt.currentMinute \div 60

SkipLeavesCursorAndOccupied ==
    \A j \in 1..Len(attempts) :
        attempts[j].search.slotStart >= 20 * 60 =>
            /\ \A i \in 1..Len(created) : created[i].taskId # attempts[j].task.id
            /\ \A b \in timeBlocks \ snapshot : b.taskId # attempts[j].task.id
            /\ attempts[j].occupiedAfter = attempts[j].occupiedSlots
            /\ attempts[j].cursorAfter = attempts[j].currentMinute
            /\ j < Len(attempts) =>
                   /\ attempts[j + 1].occupiedSlots = attempts[j].occupiedSlots
                   /\ attempts[j + 1].currentMinute = attempts[j].currentMinute

\* a task was skipped, and the task after it was placed at the cursor the
\* skipped one had read
SkipLeavesCursorAndOccupiedWitness ==
    \E j \in 1..Len(attempts) - 1 :
        /\ attempts[j].search.slotStart >= 20 * 60
        /\ attempts[j + 1].search.slotStart = attempts[j].currentMinute
        /\ CreatedAt(attempts[j + 1].task, attempts[j].currentMinute)

(***************************************************************************)
(* The auto-scheduler with more unscheduled tasks than one invocation      *)
(* takes, and with blocks late in the day.                                 *)
(***************************************************************************)
\* resistance and estimatedMinutes of the tasks queued here
QueuedTaskKinds == {<<3, 0>>, <<8, 200>>}

\* 09:00-19:30 and 20:15-22:00
LateIntervals ==
    { <<(<<9, 0>>), (<<19, 30>>)>>, <<(<<20, 15>>), (<<22, 0>>)>> }

\* peakHours of the energy patterns used here
QueuedPeakHourLists == {<<10>>}

InitSchedMany ==
    /\ TimeIdle
    /\ TextIdle
    /\ PrioIdle
    /\ EngineIdle
    /\ MoodIdle
    /\ ReminderIdle
    /\ energyPatterns \in {[isNull |-> FALSE, peakHours |-> p] : p \in QueuedPeakHourLists}

NextSchedMany ==
    \/ Len(tasks) < MaxQueuedTasks /\ \E k \in QueuedTaskKinds : addTask(k[1], k[2])
    \/ \E iv \in LateIntervals : handleAddBlock(iv[1], iv[2])
    \/ handleSimpleAutoSchedule

SpecSchedMany == InitSchedMany /\ [][NextSchedMany]_vars

\* the most increments the probe can make from a cursor: one per half hour
\* up to 20:00, and one when the cursor is already there
ProbeSteps(currentMinute) ==
    IF currentMinute >= 20 * 60 THEN 1 ELSE (20 * 60 - currentMinute + 29) \div 30

\* C19: every probe ends, after a bounded number of increments, either at a
\* conflict-free start or at the first increment that takes the start to
\* 20:00 or later, and one invocation makes at most 5 attempts.
ProbeTerminates ==
    /\ Len(attempts) <= 5
    /\ \A j \in 1..Len(attempts) :
           LET attempt == attempts[j]
               search == attempt.search
           IN  /\ search.iterations \in 0..ProbeSteps(attempt.currentMinute)
               /\ search.hasConflict =>
                      /\ search.slotStart = attempt.currentMinute + 30 * search.iterations
                      /\ \/ ~HasConflict(attempt.occupiedSlots, search.slotStart,
                                         search.slotStart + search.duration)
                         \/ /\ search.slotStart >= 20 * 60
                            /\ search.iterations <= 1 \/ search.slotStart - 30 < 20 * 60
               /\ search.slotStart < 20 * 60 =>
                      ~HasConflict(attempt.occupiedSlots, search.slotStart,
                                   search.slotStart + search.duration)

\* an invocation stopped after 5 attempts with a sixth unscheduled task
\* waiting, one probe ran into 20:00, and one started from a cursor past it
ProbeTerminatesWitness ==
    /\ Len(attempts) = 5
    /\ \E t \in Range(tasks) :
           /\ \A j \in 1..5 : attempts[j].task.id # t.id
           /\ \A b \in snapshot : b.taskId # t.id
           /\ \E j \in 1..5 : attempts[j].task.id > t.id
    /\ \E j \in 1..5 :
           /\ attempts[j].currentMinute < 20 * 60
           /\ attempts[j].search.iterations > 1
           /\ attempts[j].search.slotStart >= 20 * 60
    /\ \E j \in 1..5 :
           /\ attempts[j].currentMinute >= 20 * 60
           /\ attempts[j].search.iterations = 1

\* the tasks without a linked block among blocks
Unlinked(blocks) == {t \in Range(tasks) : \A b \in blocks : b.taskId # t.id}

\* what one invocation may create, given the blocks it started from
BatchOf(blocks, batch) ==
    /\ Len(batch) <= 5
    /\ \A i, j \in 1..Len(batch) : i # j => batch[i].taskId # batch[j].taskId
    /\ \A i \in 1..Len(batch) :
           \E t \in Unlinked(blocks) :
               /\ t.id = batch[i].taskId
               /\ Cardinality({u \in Unlinked(blocks) : u.resistance > t.resistance}) < 5

\* C20: one invocation creates at most 5 blocks, each linked to a distinct
\* task among the 5 highest-resistance tasks that had no linked block in the
\* snapshot the invocation started from.
AtMostFiveDistinctBlocks == [][handleSimpleAutoSchedule => BatchOf(timeBlocks, created')]_vars

\* the last invocation created 5 blocks for tasks of both resistances and
\* started from a snapshot with a linked block
AtMostFiveDistinctBlocksWitness ==
    /\ Len(created) = 5
    /\ \E b \in snapshot : b.taskId # 0
    /\ \E i, j \in 1..5 : attempts[i].task.resistance > attempts[j].task.resistance

(***************************************************************************)
(* Manual drag-and-drop placement: dropping a task of the sidebar on a     *)
(* slot of the timeline (TimePage) and moving a block to a slot            *)
(* (VisualTimeline).  The droppable slots are those of dropSlots.          *)
(***************************************************************************)
DropHours == {6, 21}
DropMinutes == {0, 15, 30, 45}

\* Math.round(minute / 15) * 15
SnapMinute(minute) == ((2 * minute + 15) \div 30) * 15

\* `if (startHour < 6 || endHour > 22) return;`
DropRejected(startMinutes, endMinutes) ==
    (startMinutes \div 60) < 6 \/ (endMinutes \div 60) > 22

\* TimePage.handleDragEnd: a task dropped on slot (hour, minute)
TimePageHandleDragEnd(task, hour, minute) ==
    LET duration == IF task.estimatedMinutes # 0 THEN task.estimatedMinutes ELSE 30
        startMinutes == hour * 60 + SnapMinute(minute)
        endMinutes == startMinutes + duration
    IN  /\ ~DropRejected(startMinutes, endMinutes)
        /\ timeBlocks' = timeBlocks \cup {[startTime |-> FormatTime(startMinutes),
                                           endTime |-> FormatTime(endMinutes),
                                           taskId |-> task.id]}
        /\ UNCHANGED <<tasks, energyPatterns, snapshot, created, attempts>>
        /\ UNCHANGED nonTimeVars

\* VisualTimeline.handleDragEnd: an existing block moved to slot (hour, minute)
VisualTimelineHandleDragEnd(block, hour, minute) ==
    LET duration == ToMinutes(block.endTime) - ToMinutes(block.startTime)
        newStartMinutes == hour * 60 + SnapMinute(minute)
        newEndMinutes == newStartMinutes + duration
    IN  /\ ~DropRejected(newStartMinutes, newEndMinutes)
        /\ timeBlocks' = (timeBlocks \ {block})
                            \cup {[block EXCEPT !.startTime = FormatTime(newStartMinutes),
                                                !.endTime = FormatTime(newEndMinutes)]}
        /\ UNCHANGED <<tasks, energyPatterns, snapshot, created, attempts>>
        /\ UNCHANGED nonTimeVars

InitDrag ==
    /\ TimeIdle
    /\ TextIdle
    /\ PrioIdle
    /\ EngineIdle
    /\ MoodIdle
    /\ ReminderIdle
    /\ energyPatterns = NullEnergyPattern

NextDrag ==
    \/ Len(tasks) < MaxTasks /\ \E r \in Resistances, m \in EstimatedMinutesChoices : addTask(r, m)
    \/ \E i \in 1..Len(unscheduledTasks), h \in DropHours, m \in DropMinutes :
           TimePageHandleDragEnd(unscheduledTasks[i], h, m)
    \/ \E b \in timeBlocks, h \in DropHours, m \in DropMinutes :
           VisualTimelineHandleDragEnd(b, h, m)

SpecDrag == InitDrag /\ [][NextDrag]_vars

\* C3: a drag-and-drop writes a block only when its interval lies inside
\* [06:00, 22:00]; a drop whose interval falls outside writes nothing.
DragWritesInsideWindow ==
    [][\A b \in timeBlocks' \ timeBlocks :
           /\ ToMinutes(b.startTime) >= 6 * 60
           /\ ToMinutes(b.endTime) <= 22 * 60]_vars

(***************************************************************************)
(* Transcripts.  The engine looks at a text only through regular           *)
(* expression tests and substring tests, so a transcript is represented    *)
(* by what those tests answer on it:                                       *)
(*   matches   - the CRISIS_PATTERNS expressions that test true on it,     *)
(*   includes  - the emotion words that occur in it as substrings,         *)
(*   sentences - its sentences after split(/[.!?]+/) and the filter of     *)
(*               blank ones.                                               *)
(* A sentence is a record of                                               *)
(*   keywords  - the COGNITIVE_DISTORTIONS keywords that occur in it as    *)
(*               whole words,                                              *)
(*   taskText  - the trimmed clause captured by the first taskPatterns     *)
(*               expression that matches it, as a sequence of characters   *)
(*               (<<>> when none matches or the clause is blank),          *)
(*   urge      - the intensity of the first urgePatterns expression that   *)
(*               matches it (0 when none matches),                         *)
(*   urgent    - whether it includes 'urgent' or 'asap';                   *)
(* two sentences are the same quote when they agree on all of these.       *)
(***************************************************************************)
\* a sentence that holds the given keywords and neither a task nor an urge
PlainSentence(keywords) ==
    [keywords |-> keywords, taskText |-> <<>>, urge |-> 0, urgent |-> FALSE]

MaxMatched == 3
MaxSentences == 2

CRISIS_PATTERNS ==
    [ immediate |->
        << "(going to|want to|planning to|will) (kill|end|hurt) (myself|my life)",
           "(suicide|suicidal)",
           "kill myself",
           "end (it all|my life|everything)",
           "don'?t want to (live|be alive|exist)",
           "(better off|world would be better) (dead|without me)",
           "no (reason|point) (to|in) (live|living|go on|going on)",
           "can'?t (go on|take it|do this) anymore" >>,
      high |->
        << "(want to|wanna) (die|disappear)",
           "wish (i was|i were|i'd) (dead|never born|gone)",
           "(hurt|harm|cut|injure) myself",
           "self[- ]?harm",
           "life (is|isn'?t|not) worth (it|living)",
           "everyone would be (better|happier) without me",
           "i'?m a burden" >>,
      medium |->
        << "feeling (hopeless|helpless|trapped)",
           "no (hope|way out)",
           "can'?t (cope|handle|deal)",
           "(completely|utterly|totally) (alone|worthless|useless)",
           "what'?s the point",
           "give up" >> ]

AllCrisisPatterns ==
    Range(CRISIS_PATTERNS.immediate) \cup Range(CRISIS_PATTERNS.high)
        \cup Range(CRISIS_PATTERNS.medium)

\* pattern.test(transcript)
PatternTest(pattern, text) == pattern \in text.matches

\* the patterns of one tier that test true, in the order of the tier's loop
MatchedOf(tier, text) == SelectSeq(tier, LAMBDA p : PatternTest(p, text))

\* detectCrisis with the high tier tested whatever the immediate tier found
detectCrisisUnguarded(text) ==
    LET immediate == MatchedOf(CRISIS_PATTERNS.immediate, text)
        high == MatchedOf(CRISIS_PATTERNS.high, text)
        afterHigh == IF Len(high) > 0 THEN "high"
                     ELSE IF Len(immediate) > 0 THEN "immediate" ELSE "none"
        medium == IF afterHigh = "none" THEN MatchedOf(CRISIS_PATTERNS.medium, text) ELSE <<>>
        severity == IF Len(medium) > 0 THEN "medium" ELSE afterHigh
    IN  [isCrisis |-> severity # "none", severity |-> severity,
         matchedPatterns |-> immediate \o high \o medium]

detectCrisis(text) ==
    LET immediate == MatchedOf(CRISIS_PATTERNS.immediate, text)
        afterImmediate == IF Len(immediate) > 0 THEN "immediate" ELSE "none"
        high == IF afterImmediate # "immediate"
                THEN MatchedOf(CRISIS_PATTERNS.high, text) ELSE <<>>
        afterHigh == IF Len(high) > 0 THEN "high" ELSE afterImmediate
        medium == IF afterHigh = "none" THEN MatchedOf(CRISIS_PATTERNS.medium, text) ELSE <<>>
        severity == IF Len(medium) > 0 THEN "medium" ELSE afterHigh
    IN  [isCrisis |-> severity # "none", severity |-> severity,
         matchedPatterns |-> immediate \o high \o medium]

\* sets of at most n elements of S
RECURSIVE SubsetsUpTo(_, _)
SubsetsUpTo(S, n) ==
    IF n = 0 THEN {{}}
    ELSE LET smaller == SubsetsUpTo(S, n - 1)
         IN  smaller \cup {A \cup {x} : A \in smaller, x \in S}

\* a caller evaluates detectCrisis on the transcript
RunDetectCrisis ==
    /\ crisisResult = NoCrisisResult
    /\ crisisResult' = detectCrisis(transcript)
    /\ UNCHANGED <<transcript, analysis, extractedItems>>
    /\ UNCHANGED nonTextVars

InitCrisis ==
    /\ TimeIdle
    /\ energyPatterns = NullEnergyPattern
    /\ PrioIdle
    /\ EngineIdle
    /\ MoodIdle
    /\ ReminderIdle
    /\ transcript \in {[matches |-> m, includes |-> {}, sentences |-> <<PlainSentence({})>>] :
                           m \in SubsetsUpTo(AllCrisisPatterns, MaxMatched)}
    /\ crisisResult = NoCrisisResult
    /\ analysis = NoAnalysis
    /\ extractedItems = NoExtractedItems

NextCrisis == RunDetectCrisis

SpecCrisis == InitCrisis /\ [][NextCrisis]_vars

SomeMatch(tier) == \E i \in 1..Len(tier) : PatternTest(tier[i], transcript)

\* C7: once detectCrisis has run, severity is 'immediate' whenever an
\* immediate-tier pattern matches, whatever else matches; it is 'high' only
\* when no immediate pattern matches and 'medium' only when neither an
\* immediate nor a high pattern matches.
CrisisSeverityPriority ==
    crisisResult # NoCrisisResult =>
        /\ SomeMatch(CRISIS_PATTERNS.immediate) => crisisResult.severity = "immediate"
        /\ crisisResult.severity = "high" => ~SomeMatch(CRISIS_PATTERNS.immediate)
        /\ crisisResult.severity = "medium" =>
               /\ ~SomeMatch(CRISIS_PATTERNS.immediate)
               /\ ~SomeMatch(CRISIS_PATTERNS.high)

\* detectCrisis ran on a text matching a pattern of each of the three tiers
CrisisSeverityPriorityWitness ==
    /\ crisisResult # NoCrisisResult
    /\ SomeMatch(CRISIS_PATTERNS.immediate)
    /\ SomeMatch(CRISIS_PATTERNS.high)
    /\ SomeMatch(CRISIS_PATTERNS.medium)
    /\ crisisResult.severity = "immediate"

(***************************************************************************)
(* Local cognitive analysis: patternBasedAnalysis.                         *)
(***************************************************************************)
COGNITIVE_DISTORTIONS ==
    << [type |-> "All-or-Nothing Thinking",
        patterns |-> <<"always", "never", "completely", "totally", "nothing",
                       "everything", "everyone", "no one">>,
        description |-> "Seeing things in black-and-white categories with no middle ground"],
       [type |-> "Catastrophizing",
        patterns |-> <<"worst", "terrible", "awful", "horrible", "disaster", "ruined",
                       "end of", "can't handle", "unbearable">>,
        description |-> "Expecting the worst possible outcome"],
       [type |-> "Mind Reading",
        patterns |-> <<"they think", "everyone thinks", "people think", "they hate",
                       "they don't like", "judging me", "looking at me">>,
        description |-> "Assuming you know what others are thinking without evidence"],
       [type |-> "Fortune Telling",
        patterns |-> <<"will fail", "won't work", "going to", "will never", "won't ever",
                       "bound to", "definitely will">>,
        description |-> "Predicting negative outcomes without evidence"],
       [type |-> "Should Statements",
        patterns |-> <<"should", "shouldn't", "must", "have to", "ought to", "supposed to">>,
        description |-> "Rigid rules about how things should be"],
       [type |-> "Labeling",
        patterns |-> <<"i am a", "i'm such a", "i'm so", "what a", "loser", "failure",
                       "idiot", "stupid", "worthless">>,
        description |-> "Attaching a negative label to yourself or others"],
       [type |-> "Emotional Reasoning",
        patterns |-> <<"i feel like", "feels like", "feel that", "because i feel">>,
        description |-> "Believing something is true because you feel it strongly"],
       [type |-> "Personalization",
        patterns |-> <<"my fault", "because of me", "i caused", "i made", "blame myself",
                       "i'm responsible for">>,
        description |-> "Taking responsibility for things outside your control"],
       [type |-> "Discounting the Positive",
        patterns |-> <<"doesn't count", "anyone could", "just luck", "but", "yeah but",
                       "that doesn't matter">>,
        description |-> "Dismissing positive experiences or accomplishments"],
       [type |-> "Overgeneralization",
        patterns |-> <<"this always happens", "every time", "nothing ever", "i always",
                       "i never">>,
        description |-> "Drawing broad conclusions from a single event"] >>

\* the keywords the sentences of the model are made of
Keywords == {"always", "never", "worst", "should", "failure", "but"}

\* new RegExp(`\\b${pattern}\\b`, 'gi').test(sentence.toLowerCase())
RegexTest(pattern, sentence) == pattern \in sentence.keywords

\* [...new Set(list)], and the `!foundDistortions.find(...)` guard of a push:
\* the first occurrence of every element, in order
RECURSIVE Unique(_)
Unique(list) ==
    IF list = <<>> THEN <<>>
    ELSE LET front == Unique(SubSeq(list, 1, Len(list) - 1))
             last == list[Len(list)]
         IN  IF last \in Range(front) THEN front ELSE Append(front, last)

\* the (distortion, pattern) pairs in the order the two outer loops visit them
RECURSIVE PatternPairs(_)
PatternPairs(distortions) ==
    IF distortions = <<>> THEN <<>>
    ELSE [i \in 1..Len(Head(distortions).patterns) |->
              [type |-> Head(distortions).type,
               pattern |-> Head(distortions).patterns[i],
               description |-> Head(distortions).description]]
         \o PatternPairs(Tail(distortions))

AllPatternPairs == PatternPairs(COGNITIVE_DISTORTIONS)

\* the index of the first sentence a pattern matches, 0 when it matches none:
\* the sentence loop stops (break) at the first match
FirstMatch(pattern, sentences) ==
    LET hits == {i \in 1..Len(sentences) : RegexTest(pattern, sentences[i])}
    IN  IF hits = {} THEN 0 ELSE CHOOSE i \in hits : \A j \in hits : i <= j

\* foundDistortions after the three nested loops: every pattern that matches
\* some sentence offers one entry, for the first sentence it matches, and an
\* entry is pushed unless an entry of the same type and quote is there already
FoundDistortions(sentences) ==
    LET matching == SelectSeq(AllPatternPairs,
                              LAMBDA pp : FirstMatch(pp.pattern, sentences) # 0)
    IN  Unique([i \in 1..Len(matching) |->
                    [type |-> matching[i].type,
                     quote |-> sentences[FirstMatch(matching[i].pattern, sentences)],
                     explanation |-> matching[i].description]])

\* the switch over distortion.type: the reality check pushed for a type
RealityCheckFor(type) ==
    CASE type = "All-or-Nothing Thinking" -> "Is there a middle ground or gray area here?"
      [] type = "Catastrophizing" -> "What is the most likely outcome, not the worst?"
      [] type = "Mind Reading" -> "What evidence do I actually have about what they're thinking?"
      [] type = "Fortune Telling" -> "Have my predictions been accurate in the past?"
      [] type = "Should Statements" -> "Says who? Where does this rule come from?"
      [] type = "Labeling" -> "Am I defining myself by one action or characteristic?"
      [] type = "Emotional Reasoning" -> "Just because I feel this way, does that make it true?"
      [] type = "Personalization" -> "What other factors might have contributed to this?"
      [] type = "Discounting the Positive" -> "Would I dismiss this accomplishment if a friend did it?"
      [] type = "Overgeneralization" -> "Is this truly always the case, or just sometimes?"

\* the switch over distortion.type: the reframe pushed for a type
ReframeFor(type) ==
    CASE type = "All-or-Nothing Thinking" -> "Consider: Sometimes or In this situation instead of absolutes"
      [] type = "Catastrophizing" -> "Even if this happens, what could I do to cope?"
      [] type = "Mind Reading" -> "I can't know for sure what others think without asking"
      [] type = "Fortune Telling" -> "The future is uncertain - many outcomes are possible"
      [] type = "Should Statements" -> "Try I would prefer or It would be nice if instead"
      [] type = "Labeling" -> "I am more than any single label - I have many qualities"
      [] type = "Emotional Reasoning" -> "My feelings are valid but they don't always reflect reality"
      [] type = "Personalization" -> "Many things are outside my control, and that's okay"
      [] type = "Discounting the Positive" -> "This positive thing is real and worth acknowledging"
      [] type = "Overgeneralization" -> "This is one instance, not a universal pattern"

\* lowerMessage.includes(a) || lowerMessage.includes(b) || ...
IncludesAny(text, words) == text.includes \cap words # {}

\* the canned corrective steps, in the order of the `if` statements
STEP_TYPES ==
    <<"All-or-Nothing Thinking", "Catastrophizing", "Mind Reading", "Should Statements",
      "Labeling">>

\* the step pushed for a type of STEP_TYPES
StepFor(type) ==
    CASE type = "All-or-Nothing Thinking" -> "Write down 3 examples of gray areas in this situation"
      [] type = "Catastrophizing" -> "List 3 times you expected the worst but things turned out okay"
      [] type = "Mind Reading" -> "Choose one person you're assuming things about and ask them directly"
      [] type = "Should Statements" -> "Replace one should in your thinking with I would like to"
      [] type = "Labeling" -> "Write down 5 positive qualities about yourself"

\* the three steps pushed when there are not enough
GENERAL_STEPS ==
    <<"Journal for 5 minutes about what triggered these thoughts",
      "Share these thoughts with someone you trust",
      "Do one small act of self-care today">>

\* the top-up made whenever fewer than three steps were generated
AddGeneralStepsBelowThree(shortTermSteps) ==
    IF Len(shortTermSteps) < 3 THEN shortTermSteps \o GENERAL_STEPS ELSE shortTermSteps

\* if (shortTermSteps.length < 2) { three pushes }
AddGeneralSteps(shortTermSteps) ==
    IF Len(shortTermSteps) < 2 THEN shortTermSteps \o GENERAL_STEPS ELSE shortTermSteps

\* generateCoachAdvice without the affirmation, which Math.random picks
generateCoachAdvice(distortions, text) ==
    LET distortionTypes == {distortions[i].type : i \in 1..Len(distortions)}
        present == SelectSeq(STEP_TYPES, LAMBDA t : t \in distortionTypes)
        shortTermSteps == AddGeneralSteps([i \in 1..Len(present) |-> StepFor(present[i])])
    IN  [immediateAction |->
             IF IncludesAny(text, {"anxious", "worried", "stress"})
             THEN "Ground yourself"
             ELSE IF IncludesAny(text, {"angry", "frustrated", "mad"})
             THEN "Step away from the situation for 2 minutes"
             ELSE IF IncludesAny(text, {"sad", "down", "depressed"})
             THEN "Change your physical state"
             ELSE IF IncludesAny(text, {"overwhelm"})
             THEN "Write down ONE thing you can control right now"
             ELSE "Take 3 slow, deep breaths right now",
         shortTermSteps |-> Slice(shortTermSteps, 3),
         copingStrategy |->
             IF distortionTypes \cap {"Catastrophizing", "Fortune Telling"} # {}
             THEN "Best/Worst/Most Likely"
             ELSE IF distortionTypes \cap {"Mind Reading", "Personalization"} # {}
             THEN "Evidence For/Against"
             ELSE IF "Emotional Reasoning" \in distortionTypes
             THEN "Name It to Tame It"
             ELSE "box breathing"]

patternBasedAnalysis(text) ==
    LET foundDistortions == FoundDistortions(text.sentences)
        realityChecks == [i \in 1..Len(foundDistortions) |->
                              RealityCheckFor(foundDistortions[i].type)]
        reframes == [i \in 1..Len(foundDistortions) |-> ReframeFor(foundDistortions[i].type)]
    IN  [distortions |-> Slice(foundDistortions, 5),
         realityChecks |-> Slice(Unique(realityChecks), 4),
         reframes |-> Slice(Unique(reframes), 4),
         overallAssessment |->
             IF Len(foundDistortions) = 0
             THEN [text |-> "Your thoughts appear balanced.", count |-> 0]
             ELSE [text |-> "I noticed ${count} potential cognitive pattern(s) in your thoughts.",
                   count |-> Len(foundDistortions)],
         coachAdvice |-> generateCoachAdvice(foundDistortions, text)]

\* sequences of at most n elements of S
SeqsUpTo(S, n) == UNION {[1..k -> S] : k \in 0..n}

\* the local analysis of the transcript is computed
RunPatternBasedAnalysis ==
    /\ analysis = NoAnalysis
    /\ analysis' = patternBasedAnalysis(transcript)
    /\ UNCHANGED <<transcript, crisisResult, extractedItems>>
    /\ UNCHANGED nonTextVars

InitAnalysis ==
    /\ TimeIdle
    /\ energyPatterns = NullEnergyPattern
    /\ PrioIdle
    /\ EngineIdle
    /\ MoodIdle
    /\ ReminderIdle
    /\ transcript \in {[matches |-> {}, includes |-> {}, sentences |-> ss] :
                           ss \in SeqsUpTo({PlainSentence(k) : k \in SUBSET Keywords},
                                           MaxSentences)}
    /\ crisisResult = NoCrisisResult
    /\ analysis = NoAnalysis
    /\ extractedItems = NoExtractedItems

NextAnalysis == RunPatternBasedAnalysis

SpecAnalysis == InitAnalysis /\ [][NextAnalysis]_vars

\* C9: the local cognitive analysis returns at most 5 distortions, at most 4
\* realityChecks and at most 4 reframes.
AnalysisCaps ==
    analysis # NoAnalysis =>
        /\ Len(analysis.distortions) <= 5
        /\ Len(analysis.realityChecks) <= 4
        /\ Len(analysis.reframes) <= 4

\* an analysis that found more than 5 distortions, of more than 4 types
AnalysisCapsWitness ==
    /\ analysis # NoAnalysis
    /\ analysis.overallAssessment.count > 5
    /\ Cardinality(UNION {sn.keywords : sn \in Range(transcript.sentences)}) >= 6
    /\ Len(analysis.distortions) = 5
    /\ Len(analysis.realityChecks) = 4

\* the position in the transcript of the sentence a distortion quotes
SentenceIndex(quote) ==
    CHOOSE i \in 1..Len(transcript.sentences) :
        /\ transcript.sentences[i] = quote
        /\ \A j \in 1..(i - 1) : transcript.sentences[j] # quote

\* C21: the returned distortions are the first 5 found in sentence order: a
\* distortion quoting an earlier sentence comes before one quoting a later
\* sentence, and is not cut by the cap in favour of the later one.
DistortionsInSentenceOrder ==
    analysis # NoAnalysis =>
        LET returned == analysis.distortions
        IN  /\ \A i, j \in 1..Len(returned) :
                   i < j => SentenceIndex(returned[i].quote) <= SentenceIndex(returned[j].quote)
            /\ \A found \in Range(FoundDistortions(transcript.sentences)) \ Range(returned) :
                   \A i \in 1..Len(returned) :
                       SentenceIndex(returned[i].quote) <= SentenceIndex(found.quote)

\* the (type, sentence) pairs with a keyword of the type matching the sentence
MatchingPairs ==
    {<<COGNITIVE_DISTORTIONS[c].type, transcript.sentences[i]>> :
         <<c, i>> \in {ci \in (1..Len(COGNITIVE_DISTORTIONS)) \X (1..Len(transcript.sentences)) :
                          \E k \in 1..Len(COGNITIVE_DISTORTIONS[ci[1]].patterns) :
                              RegexTest(COGNITIVE_DISTORTIONS[ci[1]].patterns[k],
                                        transcript.sentences[ci[2]])}}

\* C22: before the cap the distortions found are exactly the (category,
\* sentence) pairs with a matching keyword, each once; a second sentence
\* matching the same keyword is recorded too.
EveryMatchingPairFound ==
    analysis # NoAnalysis =>
        /\ analysis.overallAssessment.count = Cardinality(MatchingPairs)
        /\ \A i \in 1..Len(analysis.distortions) :
               <<analysis.distortions[i].type, analysis.distortions[i].quote>> \in MatchingPairs
        /\ analysis.overallAssessment.count <= 5 =>
               {<<d.type, d.quote>> : d \in Range(analysis.distortions)} = MatchingPairs

\* C28: the count stated in overallAssessment is the length of the returned
\* distortions list, and the balanced message is returned exactly when that
\* list is empty.
AssessmentCountsReturned ==
    analysis # NoAnalysis =>
        /\ analysis.overallAssessment.count = Len(analysis.distortions)
        /\ analysis.overallAssessment.text = "Your thoughts appear balanced."
               <=> Len(analysis.distortions) = 0

\* the types detected in the transcript that have a corrective step
DetectedStepTypes ==
    {d.type : d \in Range(FoundDistortions(transcript.sentences))} \cap Range(STEP_TYPES)

\* C23: shortTermSteps has 2 or 3 entries, at most one corrective step per
\* detected distortion type and none for another type, and generic steps
\* only when fewer than 2 corrective steps were generated.
ShortTermStepsShape ==
    analysis # NoAnalysis =>
        LET steps == analysis.coachAdvice.shortTermSteps
            corrective == {i \in 1..Len(steps) : steps[i] \notin Range(GENERAL_STEPS)}
        IN  /\ Len(steps) \in 2..3
            /\ \A i \in corrective : \E t \in DetectedStepTypes : steps[i] = StepFor(t)
            /\ \A i, j \in corrective : steps[i] = steps[j] => i = j
            /\ corrective # 1..Len(steps) => Cardinality(DetectedStepTypes) < 2

\* one detected type with a corrective step, topped up with generic steps
\* and cut to three
ShortTermStepsShapeWitness ==
    /\ analysis # NoAnalysis
    /\ Cardinality(DetectedStepTypes) = 1
    /\ Len(analysis.coachAdvice.shortTermSteps) = 3
    /\ analysis.coachAdvice.shortTermSteps[1] \notin Range(GENERAL_STEPS)
    /\ analysis.coachAdvice.shortTermSteps[3] \in Range(GENERAL_STEPS)

(***************************************************************************)
(* Local task prioritisation: localPrioritization.  A deadline is <<>>     *)
(* when the task has none, else <<h>> with h the whole hours from now to   *)
(* the deadline (negative when it has passed); steps is the sequence of    *)
(* the steps' completed flags.                                             *)
(***************************************************************************)
MaxPrioTasks == 2

Deadlines == {<<>>, <<-1>>, <<0>>, <<24>>, <<72>>}
PrioEstimates == {0, 10, 15}
StepLists == {<<>>, <<TRUE, FALSE>>, <<TRUE>>}
TimesAvailable == {5, 20}

\* the tasks a list starts with: every resistance, deadline state, duration and progress
FirstTaskKinds ==
    {[deadline |-> d, resistance |-> r, estimatedMinutes |-> m, steps |-> st] :
         d \in Deadlines, r \in 1..10, m \in PrioEstimates, st \in StepLists}

\* the tasks a list is continued with
MoreTaskKinds ==
    { [deadline |-> <<-1>>, resistance |-> 2, estimatedMinutes |-> 10, steps |-> <<TRUE, FALSE>>],
      [deadline |-> <<>>, resistance |-> 9, estimatedMinutes |-> 0, steps |-> <<>>],
      [deadline |-> <<24>>, resistance |-> 5, estimatedMinutes |-> 15, steps |-> <<TRUE>>] }

\* task.estimatedMinutes || 30
MinutesOrDefault(task) == IF task.estimatedMinutes # 0 THEN task.estimatedMinutes ELSE 30

\* daysUntil < n, for daysUntil = (deadline - now) / (1000 * 60 * 60 * 24)
DaysUntilBelow(task, n) == task.deadline[1] < 24 * n

\* the deadline bonuses added up, one for every threshold the deadline is under
DeadlineBonusCumulative(task) ==
    IF Len(task.deadline) = 0 THEN 0
    ELSE (IF DaysUntilBelow(task, 0) THEN 30 ELSE 0)
           + (IF DaysUntilBelow(task, 1) THEN 25 ELSE 0)
           + (IF DaysUntilBelow(task, 3) THEN 15 ELSE 0)

\* the score adjustment of the `Deadline urgency` block
DeadlineBonus(task) ==
    IF Len(task.deadline) = 0 THEN 0
    ELSE IF DaysUntilBelow(task, 0) THEN 30
    ELSE IF DaysUntilBelow(task, 1) THEN 25
    ELSE IF DaysUntilBelow(task, 3) THEN 15
    ELSE 0

DeadlineTags(task) ==
    IF Len(task.deadline) = 0 THEN <<>>
    ELSE IF DaysUntilBelow(task, 0) THEN <<"overdue">>
    ELSE IF DaysUntilBelow(task, 1) THEN <<"urgent">>
    ELSE IF DaysUntilBelow(task, 3) THEN <<"soon">>
    ELSE <<>>

DeadlineReasons(task) ==
    IF Len(task.deadline) = 0 THEN <<>>
    ELSE IF DaysUntilBelow(task, 0) THEN <<"Overdue!">>
    ELSE IF DaysUntilBelow(task, 1) THEN <<"Due today">>
    ELSE IF DaysUntilBelow(task, 3) THEN <<"Due soon">>
    ELSE <<>>

\* task.resistance - (context.currentEnergy * 2)
ResistanceVsEnergy(task, ctx) == task.resistance - ctx.currentEnergy * 2

IsHard(task, ctx) == ResistanceVsEnergy(task, ctx) > 3
IsQuickWin(task, ctx) ==
    ~IsHard(task, ctx) /\ ResistanceVsEnergy(task, ctx) < -2 /\ MinutesOrDefault(task) <= 15
FitsTime(task, ctx) == MinutesOrDefault(task) <= ctx.timeAvailable

\* progress > 0 && progress < 1, for progress = completed steps / steps
PartlyDone(task) ==
    LET done == Cardinality({i \in 1..Len(task.steps) : task.steps[i]})
    IN  Len(task.steps) > 0 /\ done > 0 /\ done < Len(task.steps)

\* `score` when the `Determine action` block is reached
RawScore(task, ctx) ==
    50 + DeadlineBonus(task)
       + (IF IsHard(task, ctx) THEN -10 ELSE IF IsQuickWin(task, ctx) THEN 10 ELSE 0)
       + (IF FitsTime(task, ctx) THEN 5 ELSE -5)
       + (IF PartlyDone(task) THEN 10 ELSE 0)

\* a clamp that forgets the upper limit
ClampScoreFloorOnly(score) == Max(0, score)

\* Math.min(100, Math.max(0, score))
ClampScore(score) == Min(100, Max(0, score))

\* the `Determine action` chain with the score test for defer moved to the front
DetermineActionDeferFirst(score, task, ctx, scoringAction) ==
    IF score < 40 THEN "defer"
    ELSE IF score >= 70 /\ ResistanceVsEnergy(task, ctx) <= 2 THEN "do_now"
    ELSE IF task.resistance >= 7 /\ Len(task.steps) = 0 THEN "break_down"
    ELSE scoringAction

\* the `Determine action` chain at the end of the callback
DetermineAction(score, task, ctx, scoringAction) ==
    IF score >= 70 /\ ResistanceVsEnergy(task, ctx) <= 2 THEN "do_now"
    ELSE IF task.resistance >= 7 /\ Len(task.steps) = 0 THEN "break_down"
    ELSE IF score < 40 THEN "defer"
    ELSE scoringAction

\* the callback of tasks.map in localPrioritization
PrioritizeOne(task, ctx) ==
    LET score == RawScore(task, ctx)
        scoringAction == IF IsHard(task, ctx) THEN "break_down"
                         ELSE IF IsQuickWin(task, ctx) THEN "quick_win"
                         ELSE "schedule"
        suggestedAction == DetermineAction(score, task, ctx, scoringAction)
        tags == DeadlineTags(task)
                  \o (IF IsHard(task, ctx) THEN <<"hard">>
                      ELSE IF IsQuickWin(task, ctx) THEN <<"quick-win">> ELSE <<>>)
                  \o (IF FitsTime(task, ctx) /\ MinutesOrDefault(task) <= 10
                      THEN <<"short">> ELSE <<>>)
                  \o (IF PartlyDone(task) THEN <<"in-progress">> ELSE <<>>)
        reasons == DeadlineReasons(task)
                  \o (IF IsHard(task, ctx) THEN <<"High resistance, consider breaking down">>
                      ELSE IF IsQuickWin(task, ctx) THEN <<"Quick win for momentum">> ELSE <<>>)
                  \o (IF FitsTime(task, ctx) THEN <<>> ELSE <<"May need more time">>)
                  \o (IF PartlyDone(task) THEN <<"Already started">> ELSE <<>>)
    IN  [taskId |-> task.id,
         score |-> ClampScore(score),
         reasoning |-> IF Len(reasons) > 0 THEN reasons ELSE <<"Regular priority">>,
         suggestedAction |-> suggestedAction,
         tags |-> tags]

\* .sort((a, b) => b.score - a.score): stable, descending
RECURSIVE InsertByScore(_, _)
InsertByScore(p, s) ==
    IF s = <<>> THEN <<p>>
    ELSE IF Head(s).score >= p.score
         THEN <<Head(s)>> \o InsertByScore(p, Tail(s))
         ELSE <<p>> \o s

RECURSIVE SortByScore(_)
SortByScore(s) ==
    IF s = <<>> THEN <<>>
    ELSE InsertByScore(s[Len(s)], SortByScore(SubSeq(s, 1, Len(s) - 1)))

localPrioritization(list, ctx) ==
    SortByScore([i \in 1..Len(list) |-> PrioritizeOne(list[i], ctx)])

\* one more active task in the list to prioritise
addActiveTask(kind) ==
    /\ prioritized.pending
    /\ Len(activeTasks) < MaxPrioTasks
    /\ activeTasks' = Append(activeTasks,
                             [id |-> Len(activeTasks) + 1, deadline |-> kind.deadline,
                              resistance |-> kind.resistance,
                              estimatedMinutes |-> kind.estimatedMinutes,
                              steps |-> kind.steps, status |-> "pending"])
    /\ UNCHANGED <<context, prioritized>>
    /\ UNCHANGED nonPrioVars

\* localPrioritization is applied to the list
RunLocalPrioritization ==
    /\ prioritized.pending
    /\ Len(activeTasks) > 0
    /\ prioritized' = [pending |-> FALSE, list |-> localPrioritization(activeTasks, context)]
    /\ UNCHANGED <<activeTasks, context>>
    /\ UNCHANGED nonPrioVars

InitPrio ==
    /\ TimeIdle
    /\ energyPatterns = NullEnergyPattern
    /\ TextIdle
    /\ EngineIdle
    /\ MoodIdle
    /\ ReminderIdle
    /\ activeTasks = <<>>
    /\ context \in {[currentEnergy |-> e, timeAvailable |-> t] :
                        e \in 1..5, t \in TimesAvailable}
    /\ prioritized = NoPrioritized

NextPrio ==
    \/ \E kind \in (IF activeTasks = <<>> THEN FirstTaskKinds ELSE MoreTaskKinds) :
           addActiveTask(kind)
    \/ RunLocalPrioritization

SpecPrio == InitPrio /\ [][NextPrio]_vars

\* the task an entry of the result was computed from
TaskOf(entry) == activeTasks[entry.taskId]

\* C10: every entry returned by localPrioritization has 0 <= score <= 100.
LocalScoreClamped ==
    \A i \in 1..Len(prioritized.list) :
        prioritized.list[i].score >= 0 /\ prioritized.list[i].score <= 100

\* an entry whose unclamped sum exceeds 100 was returned
LocalScoreClampedWitness ==
    \E i \in 1..Len(prioritized.list) :
        /\ RawScore(TaskOf(prioritized.list[i]), context) > 100
        /\ prioritized.list[i].score = 100

\* C15: localPrioritization resolves suggestedAction on the unclamped score in
\* the order do_now (score >= 70 and resistance - 2*currentEnergy <= 2), then
\* break_down (resistance >= 7 and no steps), then defer (score < 40), then the
\* action set during scoring; a task with resistance 9, no steps and
\* currentEnergy 2 gets break_down.
ActionResolutionOrder ==
    \A i \in 1..Len(prioritized.list) :
        LET entry == prioritized.list[i]
            task == TaskOf(entry)
            score == RawScore(task, context)
            mismatch == task.resistance - 2 * context.currentEnergy
        IN  /\ entry.suggestedAction =
                   IF score >= 70 /\ mismatch <= 2 THEN "do_now"
                   ELSE IF task.resistance >= 7 /\ task.steps = <<>> THEN "break_down"
                   ELSE IF score < 40 THEN "defer"
                   ELSE IF mismatch > 3 THEN "break_down"
                   ELSE IF mismatch < -2 /\ MinutesOrDefault(task) <= 15 THEN "quick_win"
                   ELSE "schedule"
            /\ (task.resistance = 9 /\ task.steps = <<>> /\ context.currentEnergy = 2)
                   => entry.suggestedAction = "break_down"

\* a task with resistance 9, no steps and currentEnergy 2 whose unclamped
\* score is below 40 got break_down, next to another entry
ActionResolutionOrderWitness ==
    /\ context.currentEnergy = 2
    /\ Len(prioritized.list) >= 2
    /\ \E i \in 1..Len(prioritized.list) :
           /\ TaskOf(prioritized.list[i]).resistance = 9
           /\ TaskOf(prioritized.list[i]).steps = <<>>
           /\ RawScore(TaskOf(prioritized.list[i]), context) < 40
           /\ prioritized.list[i].suggestedAction = "break_down"

\* the score the scoring rules give a task: 50, one deadline bonus, the
\* mismatch, time-fit and progress adjustments, clamped to 0..100
ExpectedScore(task) ==
    LET hours == task.deadline
        minutes == IF task.estimatedMinutes = 0 THEN 30 ELSE task.estimatedMinutes
        mismatch == task.resistance - 2 * context.currentEnergy
        completed == Cardinality({i \in 1..Len(task.steps) : task.steps[i]})
        sum == 50
                 + (IF hours = <<>> THEN 0
                    ELSE IF hours[1] < 0 THEN 30
                    ELSE IF hours[1] < 24 THEN 25
                    ELSE IF hours[1] < 72 THEN 15
                    ELSE 0)
                 + (IF mismatch > 3 THEN -10
                    ELSE IF mismatch < -2 /\ minutes <= 15 THEN 10
                    ELSE 0)
                 + (IF minutes <= context.timeAvailable THEN 5 ELSE -5)
                 + (IF completed > 0 /\ completed < Len(task.steps) THEN 10 ELSE 0)
    IN  IF sum > 100 THEN 100 ELSE IF sum < 0 THEN 0 ELSE sum

\* C26: every active task gets the score of the scoring rules, the tags
\* overdue, urgent and soon exclude each other, and the list is sorted by
\* descending score.
LocalScoreFormula ==
    ~prioritized.pending =>
        /\ Len(prioritized.list) = Len(activeTasks)
        /\ \A i \in 1..Len(activeTasks) :
               \E k \in 1..Len(prioritized.list) :
                   /\ prioritized.list[k].taskId = activeTasks[i].id
                   /\ prioritized.list[k].score = ExpectedScore(activeTasks[i])
                   /\ Cardinality(Range(prioritized.list[k].tags)
                                    \cap {"overdue", "urgent", "soon"}) <= 1
        /\ \A i, j \in 1..Len(prioritized.list) :
               i < j => prioritized.list[i].score >= prioritized.list[j].score

\* the second task is overdue, a quick win that fits and partly done, so its
\* sum of 105 is clamped and the sort moves it before the first task, which
\* is due soon
LocalScoreFormulaWitness ==
    /\ ~prioritized.pending
    /\ Len(prioritized.list) = 2
    /\ prioritized.list[1].taskId = 2
    /\ prioritized.list[1].score = 100
    /\ {"overdue", "quick-win", "in-progress"} \subseteq Range(prioritized.list[1].tags)
    /\ "soon" \in Range(prioritized.list[2].tags)
    /\ prioritized.list[2].score < 100

\* the last attempt before attempt j that created a block, 0 for none
PlacedBefore(j) ==
    IF \E i \in 1..(j - 1) : attempts[i].placed
    THEN CHOOSE i \in 1..(j - 1) :
             attempts[i].placed /\ \A k \in (i + 1)..(j - 1) : ~attempts[k].placed
    ELSE 0

\* C27: in one invocation, a block not placed at a free peak hour starts no
\* earlier than the cursor its task read, so at 09:00 or later and at least 15
\* minutes after the end of the block created just before it.
CursorBuffer ==
    \A j \in 1..Len(attempts) :
        (attempts[j].placed /\ attempts[j].search.availablePeakHour = 0) =>
            /\ attempts[j].search.slotStart >= attempts[j].currentMinute
            /\ attempts[j].search.slotStart >= 9 * 60
            /\ PlacedBefore(j) # 0 =>
                   attempts[j].search.slotStart
                       >= PlacedInterval(attempts[PlacedBefore(j)]).end + 15

(***************************************************************************)
(* Local task and urge extraction: patternBasedExtraction.  Texts are      *)
(* sequences of characters.  "U+FB01" is the one character LATIN SMALL     *)
(* LIGATURE FI: it has no lower-case mapping, and its upper-case mapping   *)
(* is the two characters F and I.                                          *)
(***************************************************************************)
\* String.prototype.toLowerCase, character by character
ToLowerChar(c) ==
    CASE c = "A" -> "a" [] c = "B" -> "b" [] c = "C" -> "c" [] c = "D" -> "d"
      [] c = "M" -> "m" [] c = "O" -> "o" [] c = "L" -> "l"
      [] c = "F" -> "f" [] c = "I" -> "i"
      [] OTHER -> c

\* String.prototype.toUpperCase of one character: the characters it maps to
ToUpperChar(c) ==
    CASE c = "a" -> <<"A">> [] c = "b" -> <<"B">> [] c = "c" -> <<"C">> [] c = "d" -> <<"D">>
      [] c = "m" -> <<"M">> [] c = "o" -> <<"O">> [] c = "l" -> <<"L">>
      [] c = "f" -> <<"F">> [] c = "i" -> <<"I">>
      [] c = "U+FB01" -> <<"F", "I">>
      [] OTHER -> <<c>>

ToLowerCase(str) == [i \in 1..Len(str) |-> ToLowerChar(str[i])]

\* taskText.charAt(0).toUpperCase() + taskText.slice(1)
Capitalize(str) == IF str = <<>> THEN <<>> ELSE ToUpperChar(str[1]) \o Tail(str)

\* the task part of the loop over the sentences
RECURSIVE ExtractTasks(_, _)
ExtractTasks(sentences, found) ==
    IF sentences = <<>> THEN found
    ELSE LET sentence == Head(sentences)
             taskText == sentence.taskText
             accepted == /\ taskText # <<>>
                         /\ Len(taskText) > 3
                         /\ Len(taskText) < 100
                         /\ ~\E k \in 1..Len(found) :
                                ToLowerCase(found[k].title) = ToLowerCase(taskText)
         IN  ExtractTasks(Tail(sentences),
                          IF accepted
                          THEN Append(found, [title |-> Capitalize(taskText),
                                              priority |-> IF sentence.urgent THEN "high"
                                                           ELSE "medium"])
                          ELSE found)

\* the urge part of the loop over the sentences
ExtractUrges(sentences) ==
    LET withUrge == SelectSeq(sentences, LAMBDA sn : sn.urge # 0)
    IN  [i \in 1..Len(withUrge) |->
             [urge |-> withUrge[i], intensity |-> withUrge[i].urge,
              context |-> "Detected from voice input"]]

patternBasedExtraction(text) ==
    [tasks |-> Slice(ExtractTasks(text.sentences, <<>>), 10),
     urges |-> Slice(ExtractUrges(text.sentences), 5)]

(***************************************************************************)
(* Coach fallback: getCoachFallbackResponse.  A response is named by its   *)
(* opening words.                                                          *)
(***************************************************************************)
\* the last capture group of the first task pattern that matches a sentence:
\* none, "call mom", "Call mom", "go", "nap" and "U+FB01x it"
TaskTexts ==
    {<<>>,
     <<"c", "a", "l", "l", " ", "m", "o", "m">>,
     <<"C", "a", "l", "l", " ", "m", "o", "m">>,
     <<"g", "o">>,
     <<"n", "a", "p">>,
     <<"U+FB01", "x", " ", "i", "t">>}

\* the local extraction of the transcript is computed
RunPatternBasedExtraction ==
    /\ extractedItems = NoExtractedItems
    /\ extractedItems' = patternBasedExtraction(transcript)
    /\ UNCHANGED <<transcript, crisisResult, analysis>>
    /\ UNCHANGED nonTextVars

InitExtraction ==
    /\ TimeIdle
    /\ energyPatterns = NullEnergyPattern
    /\ PrioIdle
    /\ EngineIdle
    /\ MoodIdle
    /\ ReminderIdle
    /\ transcript \in {[matches |-> {}, includes |-> {}, sentences |-> ss] :
                           ss \in SeqsUpTo({[keywords |-> {}, taskText |-> t, urge |-> u,
                                              urgent |-> g] :
                                                t \in TaskTexts, u \in {0, 7}, g \in BOOLEAN},
                                           MaxSentences)}
    /\ crisisResult = NoCrisisResult
    /\ analysis = NoAnalysis
    /\ extractedItems = NoExtractedItems

NextExtraction == RunPatternBasedExtraction

SpecExtraction == InitExtraction /\ [][NextExtraction]_vars

\* C25: a captured clause becomes a task title exactly when its length is
\* between 3 and 100 inclusive, unless it repeats an earlier title.
ClauseLengthBounds ==
    extractedItems # NoExtractedItems =>
        /\ \A i \in 1..Len(transcript.sentences) :
               LET taskText == transcript.sentences[i].taskText
               IN  Len(taskText) \in 3..100 =>
                       \E k \in 1..Len(extractedItems.tasks) :
                           ToLowerCase(extractedItems.tasks[k].title)
                               = ToLowerCase(Capitalize(taskText))
        /\ \A k \in 1..Len(extractedItems.tasks) :
               \E i \in 1..Len(transcript.sentences) :
                   /\ Len(transcript.sentences[i].taskText) \in 3..100
                   /\ extractedItems.tasks[k].title
                          = Capitalize(transcript.sentences[i].taskText)

\* C14: patternBasedExtraction never returns two tasks whose titles are equal
\* when compared case-insensitively.
ExtractionNoDuplicateTitles ==
    extractedItems # NoExtractedItems =>
        \A i, j \in 1..Len(extractedItems.tasks) :
            i # j => ToLowerCase(extractedItems.tasks[i].title)
                       # ToLowerCase(extractedItems.tasks[j].title)

\* the response returned when detectCrisis reports a crisis; it lists the
\* helplines 988, 741741 and findahelpline.com
CRISIS_RESPONSE == "I hear that you're going through something really difficult right now"

\* the `Empathetic responses based on common themes` chain and the default response
EmpatheticResponse(userMessage) ==
    IF IncludesAny(userMessage, {"anxious", "anxiety", "worried"})
    THEN "It sounds like you're experiencing some anxiety right now"
    ELSE IF IncludesAny(userMessage, {"overwhelm", "too much", "can't cope"})
    THEN "Feeling overwhelmed is so exhausting"
    ELSE IF IncludesAny(userMessage, {"sad", "down", "depressed"})
    THEN "I'm sorry you're feeling down"
    ELSE IF IncludesAny(userMessage, {"angry", "frustrated", "mad"})
    THEN "It sounds like you're feeling some strong frustration or anger"
    ELSE IF IncludesAny(userMessage, {"tired", "exhausted", "no energy"})
    THEN "Exhaustion - whether physical or emotional - is really draining"
    ELSE "Thank you for sharing that with me"

\* the fallback with the crisis test made after the theme tests
getCoachFallbackResponseThemesFirst(userMessage) ==
    IF EmpatheticResponse(userMessage) # "Thank you for sharing that with me"
    THEN EmpatheticResponse(userMessage)
    ELSE IF detectCrisis(userMessage).isCrisis THEN CRISIS_RESPONSE
    ELSE EmpatheticResponse(userMessage)

getCoachFallbackResponse(userMessage) ==
    IF detectCrisis(userMessage).isCrisis THEN CRISIS_RESPONSE
    ELSE EmpatheticResponse(userMessage)

(***************************************************************************)
(* The engine operations that may call the remote model.  An exchange with *)
(* the remote model is a record: fetch says whether the request promise    *)
(* resolved, ok is response.ok, text is <<>> when the body holds no text   *)
(* block and else <<reply>>.  A reply is abstracted by what the operations *)
(* ask of it: whether the bracket pattern matches, whether the matched     *)
(* part parses as JSON, and the parsed value.  A JSON object is a record   *)
(* whose domain is the set of the keys present, a JSON array a sequence.   *)
(* An asynchronous operation is modelled in two parts: the code up to the  *)
(* await of callClaudeAPI, and the code that runs when the exchange ends.  *)
(***************************************************************************)
NetworkFailure == [fetch |-> "rejected", ok |-> FALSE, text |-> <<>>]
ApiError == [fetch |-> "resolved", ok |-> FALSE, text |-> <<>>]
EmptyText == [fetch |-> "resolved", ok |-> TRUE, text |-> <<>>]
Replied(reply) == [fetch |-> "resolved", ok |-> TRUE, text |-> <<reply>>]

\* a reply without the bracket pattern, one whose match does not parse, one that parses
Prose == [match |-> FALSE, parses |-> FALSE, value |-> <<>>]
Malformed == [match |-> TRUE, parses |-> FALSE, value |-> <<>>]
Json(value) == [match |-> TRUE, parses |-> TRUE, value |-> value]

\* how the awaited callClaudeAPI settles
callClaudeAPI(response) ==
    IF response.fetch = "rejected"
    THEN [threw |-> TRUE, error |-> "TypeError: Failed to fetch", content |-> Prose]
    ELSE IF ~response.ok
    THEN [threw |-> TRUE, error |-> "API error", content |-> Prose]
    ELSE IF response.text = <<>>
    THEN [threw |-> TRUE, error |-> "Empty response from Claude", content |-> Prose]
    ELSE [threw |-> FALSE, error |-> "", content |-> response.text[1]]

\* one entry of the trace
Event(kind, op, userText) == [kind |-> kind, op |-> op, userText |-> userText]

\* the operation was called and has not reached an await
Called(key, args) == [IdleCall EXCEPT !.key = key, !.args = args]

\* the operation awaits callClaudeAPI
Awaiting(op, key, args, userText) ==
    [call |-> [Called(key, args) EXCEPT !.phase = "awaiting", !.remoteCalls = 1],
     events |-> <<Event("remote", op, userText)>>]

\* the operation's promise resolves with value
Returned(call, source, value, events) ==
    [call |-> [call EXCEPT !.phase = "returned", !.source = source, !.value = value],
     events |-> events]

\* the operation's promise rejects with error
Threw(call, error) ==
    [call |-> [call EXCEPT !.phase = "threw", !.source = "error", !.value = error],
     events |-> <<>>]

\* analyzeThoughts up to its await
analyzeThoughts(text, key) ==
    IF key = ""
    THEN Returned(Called(key, <<text>>), "local", patternBasedAnalysis(text),
                  <<Event("local", "analyzeThoughts", TRUE)>>)
    ELSE Awaiting("analyzeThoughts", key, <<text>>, TRUE)

\* the catch block of analyzeThoughts left out: the error reaches the caller
analyzeThoughtsCatchRethrow(call) ==
    Threw(call, "rethrown")

\* the catch block of analyzeThoughts
analyzeThoughtsCatch(call) ==
    Returned(call, "local", patternBasedAnalysis(call.args[1]),
             <<Event("local", "analyzeThoughts", TRUE)>>)

\* analyzeThoughts from the end of the exchange
analyzeThoughtsResume(call) ==
    LET api == callClaudeAPI(call.response)
    IN  IF api.threw THEN analyzeThoughtsCatch(call)
        ELSE IF api.content.match
        THEN IF api.content.parses
             THEN Returned(call, "remote", api.content.value, <<>>)
             ELSE analyzeThoughtsCatch(call)
        ELSE analyzeThoughtsCatch(call)

\* extractTasksAndUrges up to its await
extractTasksAndUrges(text, key) ==
    IF key = ""
    THEN Returned(Called(key, <<text>>), "local", patternBasedExtraction(text),
                  <<Event("local", "extractTasksAndUrges", TRUE)>>)
    ELSE Awaiting("extractTasksAndUrges", key, <<text>>, TRUE)

\* the catch block of extractTasksAndUrges left out: the error reaches the caller
extractTasksAndUrgesCatchRethrow(call) ==
    Threw(call, "rethrown")

\* the catch block of extractTasksAndUrges
extractTasksAndUrgesCatch(call) ==
    Returned(call, "local", patternBasedExtraction(call.args[1]),
             <<Event("local", "extractTasksAndUrges", TRUE)>>)

\* extractTasksAndUrges from the end of the exchange
extractTasksAndUrgesResume(call) ==
    LET api == callClaudeAPI(call.response)
    IN  IF api.threw THEN extractTasksAndUrgesCatch(call)
        ELSE IF api.content.match
        THEN IF api.content.parses
             THEN Returned(call, "remote", api.content.value, <<>>)
             ELSE extractTasksAndUrgesCatch(call)
        ELSE extractTasksAndUrgesCatch(call)

\* tasks.filter(t => t.status === 'pending' || t.status === 'in_progress')
ActiveOf(list) == SelectSeq(list, LAMBDA t : t.status \in {"pending", "in_progress"})

\* activeTasks[p.index] is defined
IndexDefined(p, active) ==
    "index" \in DOMAIN p /\ p.index >= 0 /\ p.index < Len(active)

\* the callback of parsed.map in prioritizeTasks; a key the entry lacks is
\* undefined in the result, that is, not in its domain
MapParsed(p, active) ==
    [f \in (DOMAIN p \cap {"score", "reasoning", "suggestedAction"}) \cup {"taskId", "tags"} |->
         CASE f = "taskId" -> active[p.index + 1].id
           [] f = "tags" -> IF "tags" \in DOMAIN p THEN p.tags ELSE <<>>
           [] OTHER -> p[f]]

\* b.score - a.score > 0; the difference is NaN when a score is undefined
\* and the comparator's NaN counts as 0
ComesBefore(b, a) ==
    "score" \in DOMAIN a /\ "score" \in DOMAIN b /\ b.score > a.score

\* .sort((a, b) => b.score - a.score) of the mapped reply
RECURSIVE InsertMapped(_, _)
InsertMapped(p, s) ==
    IF s = <<>> THEN <<p>>
    ELSE IF ComesBefore(p, Head(s))
         THEN <<p>> \o s
         ELSE <<Head(s)>> \o InsertMapped(p, Tail(s))

RECURSIVE SortMapped(_)
SortMapped(s) ==
    IF s = <<>> THEN <<>>
    ELSE InsertMapped(s[Len(s)], SortMapped(SubSeq(s, 1, Len(s) - 1)))

\* the catch block of prioritizeTasks
prioritizeTasksCatch(call) ==
    Returned(call, "local", localPrioritization(ActiveOf(call.args[1]), call.args[2]),
             <<Event("local", "prioritizeTasks", FALSE)>>)

\* prioritizeTasks from the end of the exchange
prioritizeTasksResume(call) ==
    LET api == callClaudeAPI(call.response)
        active == ActiveOf(call.args[1])
        parsed == api.content.value
    IN  IF api.threw THEN prioritizeTasksCatch(call)
        ELSE IF ~api.content.match THEN prioritizeTasksCatch(call)
        ELSE IF ~api.content.parses THEN prioritizeTasksCatch(call)
        ELSE IF \E i \in 1..Len(parsed) : ~IndexDefined(parsed[i], active)
        THEN prioritizeTasksCatch(call)
        ELSE Returned(call, "remote",
                      SortMapped([i \in 1..Len(parsed) |-> MapParsed(parsed[i], active)]),
                      <<>>)

\* [...messages].reverse().find(m => m.role === 'user'): <<>> when there is none
LastUserMessage(messages) ==
    LET users == {i \in 1..Len(messages) : messages[i].role = "user"}
    IN  IF users = {} THEN <<>>
        ELSE <<messages[CHOOSE i \in users : \A j \in users : j <= i]>>

\* the fallback of getCoachResponse: getCoachFallbackResponse evaluates
\* detectCrisis first
CoachFallback(call, lastUserMessage) ==
    Returned(call, "local", getCoachFallbackResponse(lastUserMessage[1].content),
             <<Event("detectCrisis", "getCoachResponse", TRUE),
               Event("local", "getCoachResponse", TRUE)>>)

\* getCoachResponse from the end of the exchange
getCoachResponseResume(call) ==
    LET api == callClaudeAPI(call.response)
        lastUserMessage == LastUserMessage(call.args[1])
    IN  IF api.threw
        THEN IF lastUserMessage # <<>> THEN CoachFallback(call, lastUserMessage)
             ELSE Threw(call, api.error)
        ELSE Returned(call, "remote", api.content, <<>>)

\* String(step.text || '').trim()
Trim(text) ==
    CASE text = " Open the file " -> "Open the file"
      [] text = "  " -> ""
      [] OTHER -> text

\* Math.min(Math.max(Number(step.estimatedMinutes) || 3, 1), 10); 0 stands for a missing value
StepMinutes(estimatedMinutes) ==
    Min(Max(IF estimatedMinutes # 0 THEN estimatedMinutes ELSE 3, 1), 10)

\* generateMicroSteps from the end of the exchange
generateMicroStepsResume(call) ==
    LET api == callClaudeAPI(call.response)
        parsed == api.content.value
    IN  IF api.threw THEN Threw(call, api.error)
        ELSE IF ~api.content.match THEN Threw(call, "Invalid response format")
        ELSE IF ~api.content.parses THEN Threw(call, "SyntaxError")
        ELSE IF "steps" \notin DOMAIN parsed THEN Threw(call, "Invalid steps format")
        ELSE Returned(call, "remote",
                      SelectSeq([i \in 1..Len(parsed.steps) |->
                                     [text |-> Trim(parsed.steps[i].text),
                                      estimatedMinutes |->
                                          StepMinutes(parsed.steps[i].estimatedMinutes)]],
                                LAMBDA step : step.text # ""),
                      <<>>)

\* the code that runs when the exchange of an awaiting operation ends
Resume(op, call) ==
    CASE op = "analyzeThoughts" -> analyzeThoughtsResume(call)
      [] op = "extractTasksAndUrges" -> extractTasksAndUrgesResume(call)
      [] op = "prioritizeTasks" -> prioritizeTasksResume(call)
      [] op = "getCoachResponse" -> getCoachResponseResume(call)
      [] op = "generateMicroSteps" -> generateMicroStepsResume(call)

(***************************************************************************)
(* Inputs of the engine operations and outcomes of the exchange.           *)
(***************************************************************************)
CallMom == <<"c", "a", "l", "l", " ", "m", "o", "m">>

\* a text in crisis; an anxious text naming one task twice and an urge; a
\* reminder whose task part is too short
EngineTexts ==
    <<[matches |-> {CRISIS_PATTERNS.immediate[1]}, includes |-> {},
       sentences |-> <<PlainSentence({"always"})>>],
      [matches |-> {}, includes |-> {"anxious"},
       sentences |-> <<[keywords |-> {"should"}, taskText |-> CallMom,
                        urge |-> 0, urgent |-> TRUE],
                       [keywords |-> {}, taskText |-> Capitalize(CallMom),
                        urge |-> 7, urgent |-> FALSE]>>],
      [matches |-> {"remember to (.*)"}, includes |-> {},
       sentences |-> <<[keywords |-> {}, taskText |-> <<"g", "o">>,
                        urge |-> 0, urgent |-> FALSE]>>]>>

\* a message that the medium tier matches and that also holds the keywords of
\* two themes
CantCopeText ==
    [matches |-> {CRISIS_PATTERNS.medium[3]}, includes |-> {"can't cope", "anxious"},
     sentences |-> <<PlainSentence({})>>]

\* chat histories: a first user message, a longer chat, one without a user
\* message, one whose last user message is in crisis and names themes
EngineChats ==
    <<<<[role |-> "user", content |-> EngineTexts[1]]>>,
      <<[role |-> "user", content |-> EngineTexts[1]],
        [role |-> "coach", content |-> EmptyTranscript],
        [role |-> "user", content |-> EngineTexts[2]]>>,
      <<[role |-> "coach", content |-> EmptyTranscript]>>,
      <<[role |-> "user", content |-> EngineTexts[2]],
        [role |-> "user", content |-> CantCopeText],
        [role |-> "coach", content |-> EmptyTranscript]>>>>

EngineTask(id, status, resistance) ==
    [id |-> id, deadline |-> <<24>>, resistance |-> resistance, estimatedMinutes |-> 0,
     steps |-> <<>>, status |-> status]

\* task lists: none, only a completed one, one active after a completed one, two active
EngineTaskLists ==
    << <<>>,
       <<EngineTask(1, "completed", 5)>>,
       <<EngineTask(1, "completed", 5), EngineTask(2, "pending", 8)>>,
       <<EngineTask(1, "pending", 3), EngineTask(2, "in_progress", 8)>> >>

EngineContext == [currentEnergy |-> 3, timeAvailable |-> 20]

\* an entry of the prioritisation reply with every key
FullEntry(index, score) ==
    [index |-> index, score |-> score, reasoning |-> <<"because">>,
     suggestedAction |-> "do_now", tags |-> <<"urgent">>]

\* the parsed values a reply may hold, per operation: of the expected shape and not
ParsedValues(op) ==
    CASE op = "analyzeThoughts" ->
             <<[distortions |-> <<>>, realityChecks |-> <<"Is it always so?">>,
                reframes |-> <<>>,
                overallAssessment |-> [text |-> "A balanced view.", count |-> 0]],
               [error |-> "overloaded"]>>
      [] op = "extractTasksAndUrges" ->
             <<[tasks |-> <<[title |-> Capitalize(CallMom), priority |-> "high"]>>,
                urges |-> <<>>],
               [tasks |-> <<>>, urges |-> <<>>],
               [error |-> "overloaded"]>>
      [] op = "prioritizeTasks" ->
             << <<FullEntry(0, 80)>>,
                <<FullEntry(1, 40), FullEntry(0, 90)>>,
                <<FullEntry(0, 150)>>,
                <<[index |-> 0, reasoning |-> <<"because">>]>>,
                <<FullEntry(7, 50)>>,
                <<[score |-> 50]>>,
                <<>> >>
      [] op = "generateMicroSteps" ->
             <<[steps |-> <<[text |-> " Open the file ", estimatedMinutes |-> 0],
                            [text |-> "  ", estimatedMinutes |-> 25]>>],
               [error |-> "overloaded"]>>
      [] op = "getCoachResponse" -> <<>>

\* the ways an exchange can end
Responses(op) ==
    <<NetworkFailure, ApiError, EmptyText, Replied(Prose), Replied(Malformed)>>
      \o [i \in 1..Len(ParsedValues(op)) |-> Replied(Json(ParsedValues(op)[i]))]

(***************************************************************************)
(* The callers.  One submission is in progress at a time; the trace starts *)
(* with the handler or operation that was called.                          *)
(***************************************************************************)
\* no operation awaits the remote model
Quiescent == \A op \in Ops : calls[op].phase # "awaiting"

\* the calls of a submission that called the operations of started
CallsOf(started) ==
    [op \in Ops |-> IF op \in DOMAIN started THEN started[op].call ELSE IdleCall]

\* the continuation of the handler has run
Done == \E i \in 1..Len(trace) : trace[i].kind \in {"done", "caught"}

\* VoicePage.analyzeTranscript up to the await of Promise.all
VoicePageAnalyzeTranscript(text) ==
    LET a == analyzeThoughts(text, apiKey)
        e == extractTasksAndUrges(text, apiKey)
    IN  /\ Quiescent
        /\ transcript' = text
        /\ crisisResult' = detectCrisis(text)
        /\ calls' = CallsOf([analyzeThoughts |-> a, extractTasksAndUrges |-> e])
        /\ trace' = <<Event("call", "VoicePage.analyzeTranscript", TRUE),
                      Event("detectCrisis", "VoicePage.analyzeTranscript", TRUE)>>
                        \o a.events \o e.events
        /\ UNCHANGED <<analysis, extractedItems, apiKey>>
        /\ UNCHANGED <<timeVars, prioVars, moodVars, reminderVars>>

\* VoicePage.analyzeTranscript after Promise.all: setAnalysis(cognitiveResult)
VoicePageSetAnalysis ==
    /\ trace # <<>>
    /\ trace[1].op = "VoicePage.analyzeTranscript"
    /\ ~Done
    /\ \E op \in {"analyzeThoughts", "extractTasksAndUrges"} : calls[op].phase # "awaiting"
    /\ IF \E op \in {"analyzeThoughts", "extractTasksAndUrges"} : calls[op].phase = "threw"
       THEN /\ trace' = Append(trace, Event("caught", "VoicePage.analyzeTranscript", TRUE))
            /\ UNCHANGED <<analysis, extractedItems>>
       ELSE /\ \A op \in {"analyzeThoughts", "extractTasksAndUrges"} :
                   calls[op].phase = "returned"
            /\ analysis' = calls["analyzeThoughts"].value
            /\ extractedItems' = calls["extractTasksAndUrges"].value
            /\ trace' = Append(trace, Event("done", "VoicePage.analyzeTranscript", TRUE))
    /\ UNCHANGED <<transcript, crisisResult, apiKey, calls>>
    /\ UNCHANGED <<timeVars, prioVars, moodVars, reminderVars>>

\* QuickCapture.processCapture up to the await of extractTasksAndUrges
QuickCaptureProcessCapture(text) ==
    LET e == extractTasksAndUrges(text, apiKey)
    IN  /\ Quiescent
        /\ Len(tasks) + MaxSentences <= MaxTasks
        /\ transcript' = text
        /\ calls' = CallsOf([extractTasksAndUrges |-> e])
        /\ trace' = <<Event("call", "QuickCapture.processCapture", TRUE)>> \o e.events
        /\ UNCHANGED <<crisisResult, analysis, extractedItems, apiKey>>
        /\ UNCHANGED <<timeVars, prioVars, moodVars, reminderVars>>

\* task.priority === 'high' ? 7 : task.priority === 'medium' ? 5 : 3
ResistanceOf(priority) ==
    IF priority = "high" THEN 7 ELSE IF priority = "medium" THEN 5 ELSE 3

\* addTask for every element of list, in order
RECURSIVE AddTasks(_, _)
AddTasks(list, stored) ==
    IF list = <<>> THEN stored
    ELSE AddTasks(Tail(list),
                  <<[id |-> Len(stored) + 1, resistance |-> ResistanceOf(Head(list).priority),
                     estimatedMinutes |-> 0]>> \o stored)

\* the first reminder pattern cannot capture anything: its lazy group is
\* followed by an optional one; the other two capture the rest of the text
ReminderFound(text) ==
    text.matches \cap {"don'?t forget (?:to )?(.*)", "remember to (.*)"} # {}

\* QuickCapture.processCapture after the await: the tasks and the reminder
QuickCaptureStore ==
    LET extracted == calls["extractTasksAndUrges"].value
        withTasks == AddTasks(extracted.tasks, tasks)
        remindersCreated == IF ReminderFound(transcript) THEN 1 ELSE 0
    IN  /\ trace # <<>>
        /\ trace[1].op = "QuickCapture.processCapture"
        /\ ~Done
        /\ calls["extractTasksAndUrges"].phase \in {"returned", "threw"}
        /\ IF calls["extractTasksAndUrges"].phase = "threw" \/ "tasks" \notin DOMAIN extracted
           THEN /\ trace' = Append(trace, Event("caught", "QuickCapture.processCapture", TRUE))
                /\ UNCHANGED tasks
           ELSE /\ tasks' = IF Len(extracted.tasks) = 0 /\ remindersCreated = 0
                            THEN <<[id |-> Len(tasks) + 1, resistance |-> 5,
                                    estimatedMinutes |-> 0]>> \o tasks
                            ELSE withTasks
                /\ trace' = trace
                              \o (IF remindersCreated = 1
                                  THEN <<Event("addReminder", "QuickCapture.processCapture", TRUE)>>
                                  ELSE <<>>)
                              \o <<Event("done", "QuickCapture.processCapture", TRUE)>>
        /\ UNCHANGED <<timeBlocks, energyPatterns, snapshot, created, attempts>>
        /\ UNCHANGED <<textVars, prioVars, moodVars, reminderVars, apiKey, calls>>

\* the operation op is called on its own and starts as started says
CallAlone(op, started) ==
    /\ Quiescent
    /\ calls' = [o \in Ops |-> IF o = op THEN started.call ELSE IdleCall]
    /\ trace' = <<Event("call", op, FALSE)>> \o started.events
    /\ UNCHANGED apiKey
    /\ UNCHANGED <<timeVars, textVars, prioVars, moodVars, reminderVars>>

\* getCoachResponse up to its await
getCoachResponse(messages) ==
    LET lastUserMessage == LastUserMessage(messages)
        call == Called(apiKey, <<messages>>)
    IN  CallAlone("getCoachResponse",
            IF apiKey = ""
            THEN IF lastUserMessage # <<>> THEN CoachFallback(call, lastUserMessage)
                 ELSE Threw(call, "API_KEY_REQUIRED")
            ELSE LET awaiting == Awaiting("getCoachResponse", apiKey, <<messages>>,
                                          lastUserMessage # <<>>)
                 IN  [call |-> awaiting.call,
                      events |-> (IF lastUserMessage # <<>>
                                  THEN <<Event("detectCrisis", "getCoachResponse", TRUE)>>
                                  ELSE <<>>) \o awaiting.events])

\* prioritizeTasks up to its await
prioritizeTasks(list, ctx) ==
    LET call == Called(apiKey, <<list, ctx>>)
    IN  CallAlone("prioritizeTasks",
            IF Len(ActiveOf(list)) = 0 THEN Returned(call, "empty", <<>>, <<>>)
            ELSE IF apiKey = ""
            THEN Returned(call, "local", localPrioritization(ActiveOf(list), ctx),
                          <<Event("local", "prioritizeTasks", FALSE)>>)
            ELSE Awaiting("prioritizeTasks", apiKey, <<list, ctx>>, FALSE))

\* generateMicroSteps up to its await
generateMicroSteps(resistance) ==
    CallAlone("generateMicroSteps",
        IF apiKey = "" THEN Threw(Called(apiKey, <<resistance>>), "API_KEY_REQUIRED")
        ELSE Awaiting("generateMicroSteps", apiKey, <<resistance>>, FALSE))

\* the exchange of an awaiting operation ends and the operation runs on
RemoteReplies(op, response) ==
    LET resumed == Resume(op, [calls[op] EXCEPT !.response = response])
    IN  /\ calls[op].phase = "awaiting"
        /\ calls' = [calls EXCEPT ![op] = resumed.call]
        /\ trace' = trace \o resumed.events
        /\ UNCHANGED apiKey
        /\ UNCHANGED <<timeVars, textVars, prioVars, moodVars, reminderVars>>

InitEngine ==
    /\ TimeIdle
    /\ energyPatterns = NullEnergyPattern
    /\ TextIdle
    /\ PrioIdle
    /\ MoodIdle
    /\ ReminderIdle
    /\ apiKey \in {"", "sk-ant-key"}
    /\ calls = [op \in Ops |-> IdleCall]
    /\ trace = <<>>

NextEngine ==
    \/ \E i \in 1..Len(EngineTexts) : VoicePageAnalyzeTranscript(EngineTexts[i])
    \/ VoicePageSetAnalysis
    \/ \E i \in 1..Len(EngineTexts) : QuickCaptureProcessCapture(EngineTexts[i])
    \/ QuickCaptureStore
    \/ \E i \in 1..Len(EngineChats) : getCoachResponse(EngineChats[i])
    \/ \E i \in 1..Len(EngineTaskLists) : prioritizeTasks(EngineTaskLists[i], EngineContext)
    \/ \E resistance \in Resistances : generateMicroSteps(resistance)
    \/ \E op \in Ops : \E i \in 1..Len(Responses(op)) : RemoteReplies(op, Responses(op)[i])

SpecEngine == InitEngine /\ [][NextEngine]_vars

(***************************************************************************)
(* Properties of the engine operations.                                    *)
(***************************************************************************)
FallbackOps == {"analyzeThoughts", "extractTasksAndUrges", "prioritizeTasks"}

\* what the local heuristic of op computes from the arguments
LocalResult(op, args) ==
    CASE op = "analyzeThoughts" -> patternBasedAnalysis(args[1])
      [] op = "extractTasksAndUrges" -> patternBasedExtraction(args[1])
      [] op = "prioritizeTasks" -> localPrioritization(ActiveOf(args[1]), args[2])

\* op returned what its local heuristic computes
ReturnedLocal(op) ==
    /\ calls[op].phase = "returned"
    /\ calls[op].source # "remote"
    /\ calls[op].value = LocalResult(op, calls[op].args)

\* the exchange ended in a network failure, a non-2xx response, an empty
\* response, a reply without bracket or a reply that does not parse
Rejected(response) ==
    /\ response.fetch # "none"
    /\ \/ response.fetch = "rejected"
       \/ ~response.ok
       \/ response.text = <<>>
       \/ ~response.text[1].match
       \/ ~response.text[1].parses

\* prioritizeTasks was called with no pending or in_progress task
NoActiveTask(op) ==
    op = "prioritizeTasks" /\ calls[op].phase # "idle" /\ ActiveOf(calls[op].args[1]) = <<>>

\* the fallback contract of op; when exceptNoActive, a keyed prioritizeTasks
\* without active task is to make no remote call and return the empty list
FallbackContract(op, exceptNoActive) ==
    LET c == calls[op]
    IN  /\ c.phase # "threw"
        /\ c.remoteCalls <= 1
        /\ (c.phase # "idle" /\ c.key = "") => (c.remoteCalls = 0 /\ ReturnedLocal(op))
        /\ (c.phase # "idle" /\ c.key # "") =>
               IF exceptNoActive /\ NoActiveTask(op)
               THEN c.remoteCalls = 0 /\ c.phase = "returned" /\ c.value = <<>>
               ELSE c.remoteCalls = 1
        /\ Rejected(c.response) => (c.remoteCalls = 1 /\ ReturnedLocal(op))

\* C4 as stated: for analyzeThoughts, extractTasksAndUrges and prioritizeTasks,
\* an empty key means no remote call and the local result; a key means exactly
\* one remote call, and every rejection of it yields the local result with no
\* second call and no error.
FallbackNoRetry == \A op \in FallbackOps : FallbackContract(op, FALSE)

\* C4: the same, except that prioritizeTasks called with a key and no pending or
\* in_progress task makes no remote call and returns the empty list.
FallbackNoRetryUnlessNoActive == \A op \in FallbackOps : FallbackContract(op, TRUE)

\* a keyed operation whose one exchange was rejected returned the local result,
\* and a keyed prioritizeTasks without active task returned without a call
FallbackNoRetryWitness ==
    \/ \E op \in FallbackOps :
           /\ calls[op].key # ""
           /\ calls[op].response = Replied(Malformed)
           /\ calls[op].remoteCalls = 1
           /\ ReturnedLocal(op)
           /\ calls[op].value # <<>>
    \/ /\ calls["prioritizeTasks"].key # ""
       /\ NoActiveTask("prioritizeTasks")
       /\ calls["prioritizeTasks"].args[1] # <<>>
       /\ calls["prioritizeTasks"].remoteCalls = 0

\* the reply parsed and the value has the shape op expects
Shaped(op, value, args) ==
    CASE op = "analyzeThoughts" ->
             {"distortions", "realityChecks", "reframes"} \subseteq DOMAIN value
      [] op = "extractTasksAndUrges" -> {"tasks", "urges"} \subseteq DOMAIN value
      [] op = "prioritizeTasks" ->
             \A i \in 1..Len(value) :
                 IndexDefined(value[i], ActiveOf(args[1])) /\ "score" \in DOMAIN value[i]

\* the exchange of op ended with parseable JSON that lacks the expected shape
MisShapedReply(op) ==
    LET c == calls[op]
    IN  /\ c.response.text # <<>>
        /\ c.response.text[1].match
        /\ c.response.text[1].parses
        /\ ~Shaped(op, c.response.text[1].value, c.args)

\* C5: when the reply to analyzeThoughts, extractTasksAndUrges or prioritizeTasks
\* is parseable JSON without the expected shape, the caller receives the local
\* heuristic result and never the mis-shaped value.
MisShapedFallsBack ==
    \A op \in FallbackOps :
        (calls[op].phase = "returned" /\ MisShapedReply(op)) => ReturnedLocal(op)

CrisisCheckedFirst ==
    \A i \in 1..Len(trace) :
        (trace[i].userText /\ trace[i].kind \in {"remote", "local"}) =>
            \E j \in 1..(i - 1) : trace[j].kind = "detectCrisis"

\* C11: every PrioritizedTask returned by prioritizeTasks, on the remote path
\* as on the local path, has a score within 0..100, whatever the reply holds.
PrioritizeScoreClamped ==
    calls["prioritizeTasks"].phase = "returned" =>
        \A i \in 1..Len(calls["prioritizeTasks"].value) :
            /\ "score" \in DOMAIN calls["prioritizeTasks"].value[i]
            /\ calls["prioritizeTasks"].value[i].score >= 0
            /\ calls["prioritizeTasks"].value[i].score <= 100

\* C29: whenever getCoachResponse answers from the local fallback and
\* detectCrisis reports a crisis for the latest user message, the answer is
\* the crisis-resources response, whatever theme keywords the message holds.
CrisisResponseFirst ==
    LET call == calls["getCoachResponse"]
    IN  (call.phase = "returned" /\ call.source = "local") =>
            LET users == {i \in 1..Len(call.args[1]) : call.args[1][i].role = "user"}
                latest == call.args[1][CHOOSE i \in users : \A k \in users : k <= i].content
            IN  /\ users # {}
                /\ detectCrisis(latest).isCrisis =>
                       /\ detectCrisis(latest).severity \in {"immediate", "high", "medium"}
                       /\ call.value = CRISIS_RESPONSE

\* the remote call failed for a chat whose latest user message the medium
\* tier matches and which names two themes; the crisis response was returned
CrisisResponseFirstWitness ==
    LET call == calls["getCoachResponse"]
    IN  /\ call.phase = "returned"
        /\ call.source = "local"
        /\ call.key # ""
        /\ call.args[1] = EngineChats[4]
        /\ detectCrisis(CantCopeText).severity = "medium"
        /\ IncludesAny(CantCopeText, {"anxious"})
        /\ IncludesAny(CantCopeText, {"can't cope"})
        /\ call.value = CRISIS_RESPONSE

(***************************************************************************)
(* Energy patterns: analyzeEnergyPatterns over the mood logs.  A log is    *)
(* its hour of day, its energy (1..5) and its age in whole days.  An       *)
(* average is kept as the exact fraction [num, den] the division is made   *)
(* of; fractions are compared by cross-multiplication.                     *)
(***************************************************************************)
MaxLogs == 5

LogHours == {9, 15, 20}
LogEnergies == {1, 3, 5}

\* a check-in older than the analysis window, and one outside the hours 6..22
OldLog == [hour |-> 9, energy |-> 5, daysAgo |-> 20]
NightLog == [hour |-> 23, energy |-> 1, daysAgo |-> 0]

\* a <= b for fractions
Leq(a, b) == a.num * b.den <= b.num * a.den

\* energies.reduce((a, b) => a + b, 0)
RECURSIVE SumOf(_)
SumOf(energies) == IF energies = <<>> THEN 0 ELSE Head(energies) + SumOf(Tail(energies))

\* useEnergyPatternLogs(14) and the recentLogs filter: the logs of the last 14 days
RecentLogs(logs) == SelectSeq(logs, LAMBDA log : log.daysAgo < 14)

\* hourlyData[hour] after the grouping
EnergiesAt(recentLogs, hour) ==
    LET atHour == SelectSeq(recentLogs, LAMBDA log : log.hour = hour)
    IN  [i \in 1..Len(atHour) |-> atHour[i].energy]

\* the buckets 6..22 with at least one sample, in hour order
HourlyAverages(recentLogs) ==
    LET all == [i \in 1..17 |->
                   LET energies == EnergiesAt(recentLogs, i + 5)
                   IN  [hour |-> i + 5,
                        avgEnergy |-> [num |-> SumOf(energies),
                                       den |-> Max(Len(energies), 1)],
                        sampleCount |-> Len(energies)]]
    IN  SelectSeq(all, LAMBDA h : h.sampleCount > 0)

\* [...energyValues].sort((a, b) => a - b)
RECURSIVE InsertAscending(_, _)
InsertAscending(e, sorted) ==
    IF sorted = <<>> THEN <<e>>
    ELSE IF Leq(Head(sorted), e)
         THEN <<Head(sorted)>> \o InsertAscending(e, Tail(sorted))
         ELSE <<e>> \o sorted

RECURSIVE SortAscending(_)
SortAscending(values) ==
    IF values = <<>> THEN <<>>
    ELSE InsertAscending(values[Len(values)], SortAscending(SubSeq(values, 1, Len(values) - 1)))

\* sortedEnergies[index] || fallback, for a 0-based index
ValueAtOr(sortedEnergies, index, fallback) ==
    IF index < Len(sortedEnergies) /\ sortedEnergies[index + 1].num # 0
    THEN sortedEnergies[index + 1]
    ELSE [num |-> fallback, den |-> 1]

\* h.avgEnergy > p75 && h.sampleCount >= 2
IsPeakStrict(h, p75) == ~Leq(h.avgEnergy, p75) /\ h.sampleCount >= 2

\* h.avgEnergy >= p75 && h.sampleCount >= 2
IsPeak(h, p75) == Leq(p75, h.avgEnergy) /\ h.sampleCount >= 2

\* h.avgEnergy <= p25 && h.sampleCount >= 2
IsLow(h, p25) == Leq(h.avgEnergy, p25) /\ h.sampleCount >= 2

\* .map(h => h.hour) of the entries a filter kept
HoursOf(kept) == [i \in 1..Len(kept) |-> kept[i].hour]

analyzeEnergyPatterns(logs) ==
    LET recentLogs == RecentLogs(logs)
        hourlyAverages == HourlyAverages(recentLogs)
        allEnergies == [i \in 1..Len(recentLogs) |-> recentLogs[i].energy]
        energyValues == SelectSeq([i \in 1..Len(hourlyAverages) |-> hourlyAverages[i].avgEnergy],
                                  LAMBDA e : e.num > 0)
        sortedEnergies == SortAscending(energyValues)
        p75 == ValueAtOr(sortedEnergies, (Len(sortedEnergies) * 3) \div 4, 4)
        p25 == ValueAtOr(sortedEnergies, Len(sortedEnergies) \div 4, 2)
        peakHours == HoursOf(SelectSeq(hourlyAverages, LAMBDA h : IsPeak(h, p75)))
        lowHours == HoursOf(SelectSeq(hourlyAverages, LAMBDA h : IsLow(h, p25)))
    IN  [isNull |-> FALSE,
         hourlyAverages |-> hourlyAverages,
         peakHours |-> peakHours,
         lowHours |-> lowHours,
         recommendations |->
             (IF Len(peakHours) > 0 THEN <<"Your peak energy times">> ELSE <<>>)
               \o (IF Len(lowHours) > 0 THEN <<"Energy tends to dip">> ELSE <<>>)
               \o (IF \E i \in 1..Len(peakHours) : peakHours[i] >= 9 /\ peakHours[i] <= 11
                   THEN <<"You're a morning person!">>
                   ELSE IF \E i \in 1..Len(peakHours) : peakHours[i] >= 14 /\ peakHours[i] <= 17
                   THEN <<"Your energy peaks in the afternoon.">>
                   ELSE IF \E i \in 1..Len(peakHours) : peakHours[i] >= 19 /\ peakHours[i] <= 22
                   THEN <<"You're an evening person.">>
                   ELSE <<>>)
               \o (IF Len(recentLogs) < 5 THEN <<"Log more mood/energy check-ins">> ELSE <<>>),
         overallAverage |-> IF Len(allEnergies) > 0
                            THEN [num |-> SumOf(allEnergies), den |-> Len(allEnergies)]
                            ELSE [num |-> 3, den |-> 1]]

\* TimePage.energyPatterns: null without a log of the last 14 days
EnergyPatternsOf(logs) ==
    IF Len(RecentLogs(logs)) = 0 THEN NullEnergyPattern
    ELSE analyzeEnergyPatterns(RecentLogs(logs))

\* AwarenessPage.handleAddLog: a check-in at the current hour; the memoised
\* energy patterns follow the live query
handleAddLog(hour, energy) ==
    /\ Len(moodLogs) < MaxLogs
    /\ moodLogs' = Append(moodLogs, [hour |-> hour, energy |-> energy, daysAgo |-> 0])
    /\ energyPatterns' = EnergyPatternsOf(moodLogs')
    /\ UNCHANGED <<tasks, timeBlocks, snapshot, created, attempts>>
    /\ UNCHANGED <<textVars, prioVars, engineVars, reminderVars>>

InitEnergy ==
    /\ ReminderIdle
    /\ TimeIdle
    /\ TextIdle
    /\ PrioIdle
    /\ EngineIdle
    /\ moodLogs \in {<<>>, <<OldLog>>, <<NightLog>>}
    /\ energyPatterns = EnergyPatternsOf(moodLogs)

NextEnergy == \E hour \in LogHours, energy \in LogEnergies : handleAddLog(hour, energy)

SpecEnergy == InitEnergy /\ [][NextEnergy]_vars

\* the entries of hourlyAverages
HourEntries == Range(energyPatterns.hourlyAverages)

\* C12: the peakHours and lowHours returned by analyzeEnergyPatterns are
\* disjoint, also when one hour only has data or all averages are equal.
PeakLowDisjoint ==
    ~energyPatterns.isNull =>
        Range(energyPatterns.peakHours) \cap Range(energyPatterns.lowHours) = {}

\* C13: an hour with at least 2 samples whose average is the maximum over the
\* hours with data is in peakHours, and one whose average is the minimum is in
\* lowHours, whatever hours with a single sample exist.
ExtremesClassified ==
    ~energyPatterns.isNull =>
        \A h \in HourEntries :
            h.sampleCount >= 2 =>
                /\ (\A g \in HourEntries : Leq(g.avgEnergy, h.avgEnergy)) =>
                       h.hour \in Range(energyPatterns.peakHours)
                /\ (\A g \in HourEntries : Leq(h.avgEnergy, g.avgEnergy)) =>
                       h.hour \in Range(energyPatterns.lowHours)

\* hour 9 holds the maximum and hour 15 the minimum, each with 2 samples or
\* more, next to an hour with a single sample of another average
ExtremesClassifiedWitness ==
    /\ ~energyPatterns.isNull
    /\ \E h, l, g \in HourEntries :
           /\ h.hour = 9 /\ h.sampleCount >= 2
           /\ l.hour = 15 /\ l.sampleCount >= 2
           /\ g.sampleCount = 1
           /\ ~Leq(h.avgEnergy, g.avgEnergy)
           /\ ~Leq(g.avgEnergy, l.avgEnergy)
    /\ 9 \in Range(energyPatterns.peakHours)
    /\ 15 \in Range(energyPatterns.lowHours)

\* resistance >= 7 ? 4 : resistance >= 4 ? 3 : 2
MinEnergyNeeded(resistance) == IF resistance >= 7 THEN 4 ELSE IF resistance >= 4 THEN 3 ELSE 2

\* hourData.avgEnergy >= n for a whole number n
AtLeast(avgEnergy, n) == Leq([num |-> n, den |-> 1], avgEnergy)

\* existingBlocks.some(block => hour >= blockStart && hour < blockEnd)
IsBlocked(hour, existingBlocks) ==
    \E block \in existingBlocks : hour >= block.startTime[1] /\ hour < block.endTime[1]

\* the if / else-if chain that sets quality
QualityOf(hourData, resistance, patterns) ==
    IF AtLeast(hourData.avgEnergy, 4) /\ resistance >= 7 THEN "optimal"
    ELSE IF AtLeast(hourData.avgEnergy, MinEnergyNeeded(resistance))
    THEN IF hourData.hour \in Range(patterns.peakHours) THEN "optimal" ELSE "good"
    ELSE IF AtLeast(hourData.avgEnergy, MinEnergyNeeded(resistance) - 1) THEN "acceptable"
    ELSE "avoid"

\* qualityOrder
QualityOrder(quality) ==
    CASE quality = "optimal" -> 0
      [] quality = "good" -> 1
      [] quality = "acceptable" -> 2
      [] quality = "avoid" -> 3

suggestOptimalTimes(resistance, patterns, existingBlocks) ==
    LET listed == SelectSeq(patterns.hourlyAverages,
                            LAMBDA h : h.sampleCount >= 2 /\ ~IsBlocked(h.hour, existingBlocks))
        recommendations == [i \in 1..Len(listed) |->
                                [hour |-> listed[i].hour,
                                 quality |-> QualityOf(listed[i], resistance, patterns)]]
        Before(a, b) == \/ QualityOrder(a.quality) < QualityOrder(b.quality)
                        \/ QualityOrder(a.quality) = QualityOrder(b.quality) /\ a.hour <= b.hour
        Rank(i) == Cardinality({j \in 1..Len(recommendations) :
                                    Before(recommendations[j], recommendations[i])})
    IN  [k \in 1..Len(recommendations) |->
             recommendations[CHOOSE i \in 1..Len(recommendations) : Rank(i) = k]]

\* the resistances suggestions are asked for
SuggestResistances == {2, 5, 8}

\* VisualTimeline.timeSuggestions, for a task of the given resistance
timeSuggestions(resistance) ==
    IF energyPatterns.isNull THEN <<>>
    ELSE suggestOptimalTimes(resistance, energyPatterns, timeBlocks)

\* C24: a listed hour is 'optimal' exactly when (avgEnergy >= 4 and
\* resistance >= 7) or the hour is in peakHours; every listed peak hour is
\* 'optimal' whatever its average energy.
PeakHoursOptimal ==
    \A resistance \in SuggestResistances :
        \A rec \in Range(timeSuggestions(resistance)) :
            \A h \in HourEntries :
                h.hour = rec.hour =>
                    (rec.quality = "optimal"
                        <=> \/ AtLeast(h.avgEnergy, 4) /\ resistance >= 7
                            \/ h.hour \in Range(energyPatterns.peakHours))

(***************************************************************************)
(* Reminders: ReminderChecker, checkReminders and triggerReminder.  The    *)
(* clock counts minutes; the triggerValue of a time reminder is the minute *)
(* it names.  A checkAndTrigger invocation runs up to its await of         *)
(* triggerReminder, and goes on when the update has been applied, up to    *)
(* the next await or to its end.  The component renders with the result   *)
(* of the live query over the active reminders; a change of that result    *)
(* re-creates checkAndTrigger, and the effect calls it at once.            *)
(***************************************************************************)
MaxChecks == 3
MaxClock == 1

Reminder(triggerType, triggerValue, createdAt) ==
    [triggerType |-> triggerType, triggerValue |-> triggerValue, createdAt |-> createdAt,
     isActive |-> TRUE]

\* the reminders of the database at the start, in id order: a time reminder
\* alone, two time reminders of one minute, an energy reminder before a time
\* reminder of the next minute, a context reminder 5 minutes old before an
\* energy reminder
ReminderLists ==
    { <<Reminder("time", 0, 0)>>,
      <<Reminder("time", 0, 0), Reminder("time", 0, 0)>>,
      <<Reminder("energy", "low", 0), Reminder("time", 1, 0)>>,
      <<Reminder("context", "anytime", -5), Reminder("energy", "high", 0)>> }

\* the energies of the latest log: none within 2 hours, 3 and 5
LatestEnergies == {0, 3, 5}

\* checkTimeReminder: the current hour and minute are those of triggerValue
checkTimeReminder(reminder) ==
    reminder.triggerType = "time" /\ clock = reminder.triggerValue

\* checkEnergyReminder
checkEnergyReminder(reminder, currentEnergy) ==
    /\ reminder.triggerType = "energy"
    /\ currentEnergy # 0
    /\ \/ reminder.triggerValue = "high" /\ currentEnergy >= 4
       \/ reminder.triggerValue = "medium" /\ currentEnergy >= 3
       \/ reminder.triggerValue = "low"

\* checkContextReminder
checkContextReminder(reminder, triggered) ==
    /\ reminder.triggerType = "context"
    /\ reminder.id \notin triggered
    /\ reminder.triggerValue = "anytime"
    /\ clock - reminder.createdAt >= 5

\* checkReminders(reminders, {currentEnergy, triggeredIds})
checkReminders(list, currentEnergy, triggered) ==
    SelectSeq(list, LAMBDA reminder :
        /\ reminder.isActive
        /\ \/ checkTimeReminder(reminder)
           \/ checkEnergyReminder(reminder, currentEnergy)
           \/ checkContextReminder(reminder, triggered))

\* db.reminders.filter(r => r.isActive === true).toArray(), each with its id
ActiveReminders(table) ==
    SelectSeq([i \in 1..Len(table) |-> [id |-> i] @@ table[i]], LAMBDA r : r.isActive)

\* if (notificationsEnabled()) { showNotification(...) }
Notified(counts, reminder) ==
    IF permission THEN [counts EXCEPT ![reminder.id] = @ + 1] ELSE counts

\* checkAndTrigger, rendered with the list, up to its first await
checkAndTrigger(list) ==
    LET remindersToTrigger ==
            IF Len(list) = 0 THEN <<>>
            ELSE checkReminders(list, latestEnergy, triggeredIds)
    IN  IF remindersToTrigger = <<>>
        THEN UNCHANGED <<checkRuns, notifications, checksStarted>>
        ELSE /\ notifications' = Notified(notifications, remindersToTrigger[1])
             /\ checkRuns' = Append(checkRuns, [remindersToTrigger |-> remindersToTrigger,
                                                position |-> 1])
             /\ checksStarted' = checksStarted + 1

\* the callback of setInterval(checkAndTrigger, CHECK_INTERVAL)
IntervalCheck ==
    /\ checksStarted < MaxChecks
    /\ checkAndTrigger(activeReminders)
    /\ UNCHANGED <<reminders, activeReminders, latestEnergy, permission, triggeredIds,
                   reminderUpdates, clock>>
    /\ UNCHANGED <<timeVars, textVars, prioVars, engineVars, moodVars>>

\* the live query delivers a changed list of active reminders: the component
\* renders with it and the effect calls the new checkAndTrigger
LiveQueryChanges ==
    /\ checksStarted < MaxChecks
    /\ activeReminders # ActiveReminders(reminders)
    /\ activeReminders' = ActiveReminders(reminders)
    /\ checkAndTrigger(activeReminders')
    /\ UNCHANGED <<reminders, latestEnergy, permission, triggeredIds, reminderUpdates, clock>>
    /\ UNCHANGED <<timeVars, textVars, prioVars, engineVars, moodVars>>

\* the update of triggerReminder is applied and the invocation waiting for
\* it goes on: triggeredIds.add, then the next reminder of its list
triggerReminderResolves(k) ==
    LET invocation == checkRuns[k]
        reminder == invocation.remindersToTrigger[invocation.position]
    IN  /\ reminders' = [reminders EXCEPT ![reminder.id].isActive = FALSE]
        /\ reminderUpdates' = [reminderUpdates EXCEPT ![reminder.id] = @ + 1]
        /\ triggeredIds' = triggeredIds \cup {reminder.id}
        /\ IF invocation.position < Len(invocation.remindersToTrigger)
           THEN /\ notifications' =
                       Notified(notifications,
                                invocation.remindersToTrigger[invocation.position + 1])
                /\ checkRuns' = [checkRuns EXCEPT ![k].position = @ + 1]
           ELSE /\ notifications' = notifications
                /\ checkRuns' = [i \in 1..(Len(checkRuns) - 1) |->
                                     IF i < k THEN checkRuns[i] ELSE checkRuns[i + 1]]
        /\ UNCHANGED <<activeReminders, latestEnergy, permission, clock, checksStarted>>
        /\ UNCHANGED <<timeVars, textVars, prioVars, engineVars, moodVars>>

\* a minute passes
Tick ==
    /\ clock < MaxClock
    /\ clock' = clock + 1
    /\ UNCHANGED <<reminders, activeReminders, latestEnergy, permission, triggeredIds,
                   checkRuns, notifications, reminderUpdates, checksStarted>>
    /\ UNCHANGED <<timeVars, textVars, prioVars, engineVars, moodVars>>

\* the component mounts before the live query has delivered a list
InitReminders ==
    /\ TimeIdle
    /\ energyPatterns = NullEnergyPattern
    /\ TextIdle
    /\ PrioIdle
    /\ EngineIdle
    /\ MoodIdle
    /\ reminders \in ReminderLists
    /\ activeReminders = <<>>
    /\ latestEnergy \in LatestEnergies
    /\ permission \in BOOLEAN
    /\ triggeredIds = {}
    /\ checkRuns = <<>>
    /\ notifications = [i \in 1..Len(reminders) |-> 0]
    /\ reminderUpdates = [i \in 1..Len(reminders) |-> 0]
    /\ clock = 0
    /\ checksStarted = 0

NextReminders ==
    \/ IntervalCheck
    \/ LiveQueryChanges
    \/ \E k \in 1..Len(checkRuns) : triggerReminderResolves(k)
    \/ Tick

SpecReminders == InitReminders /\ [][NextReminders]_vars

\* C30: each reminder is triggered at most once: over every interleaving of
\* the interval callback, the call made when the live query changes and the
\* invocations suspended at their await, no reminder gets a second
\* notification or a second triggerReminder update.
TriggeredAtMostOnce ==
    \A i \in 1..Len(reminders) : notifications[i] <= 1 /\ reminderUpdates[i] <= 1

====
